---- MODULE Spec2Model ----
(***************************************************************************)
(* A model of three parts of thin-edge.io:                                 *)
(*   - the entity registration model (tedge_agent entity_manager, the      *)
(*     reference State the entity store is tested against),                *)
(*   - operation workflows (tedge_api workflow) and the engine driving     *)
(*     commands through them,                                              *)
(*   - the MQTT actor (tedge_mqtt_ext) relaying messages between its       *)
(*     peers and the broker.                                               *)
(* Each part has its own specification over the shared variables.          *)
(***************************************************************************)
EXTENDS Naturals, Integers, Sequences, FiniteSets, TLC

VARIABLES
    entities,     \* State.entities: topic id -> (type, parent)
    registered,   \* State.registered
    lastOp,       \* the last request applied, its response and the state before it
    delivered,    \* the registrations delivered so far over MQTT (SpecLax)
    outbound,     \* the creation messages the last request made the store publish, in order
    loadResult,   \* the last workflow construction: its input and its result
    registry,     \* the workflows of the engine, by operation
    phase,        \* "loading" the definitions, then "running" commands
    cmd,          \* the commands: state on the command topic and in the engine
    publish_channel,  \* MqttActorBuilder.publish_channel: messages and parked senders
    peer_channel,     \* the input channel of each client, and whether the actor is parked on it
    received,         \* mqtt_client.received: from the broker to the actor
    actor,            \* MqttActor::run: where it is and the message it holds
    client,           \* the clients: where each is and the message it holds
    sent,             \* the number of messages the child device has sent
    scenario,         \* the clients connected to the actor: those of which test
    script,           \* the messages each client has still to send
    inbox,            \* the messages each client has received, in order
    closed,           \* the ends that were dropped: client senders, client receivers, the broker stream
    routed,           \* the messages the actor received from the broker
    agent,            \* the agent process: up or down, and how often it was stopped
    operation,        \* the operation of each command of the recovering engine
    retained,         \* the retained message of each command topic
    engine_in,        \* the messages of each command topic in flight to the engine
    instance,         \* the in-memory command instances of the engine
    journal,          \* the states the engine persisted for each command
    observed,         \* all that was published on each command topic, in order
    clears,           \* how often the clear action was applied to each command
    repo,             \* the file of the restart manager's AgentStateRepository
    manager,          \* the restart manager: where it is and its command
    reports,          \* all the responses of the restart manager, in order
    startup,          \* what the restart manager found and reported at its last startup
    redelivered,      \* how many messages the broker delivered a second time
    converter,        \* the OldAgentAdapter: its last input, what it emitted and logged
    events,           \* ConfigManagerMessageBox.events: the channel of MqttMessage and FileEvent
    http_responses,   \* ConfigManagerMessageBox.http_responses: the channel of HttpResult
    fan_script,       \* what each source has still to send to the config manager
    fan_sent,         \* once an HTTP response was sent, the number of events sent before the first one
    fan_dropped,      \* the sources that dropped their sender
    merged,           \* what ConfigManagerMessageBox::recv returned, in order
    tasks,            \* the tasks the runtime spawned: the state of each actor
    runtime,          \* the runtime: its phase, the fatal errors it observed, its result
    smartrest,        \* a call of a SmartREST function: its input and its result
    storage,          \* the state file of a repository, the store under way, the last call
    c8y_operations,   \* struct Operations, and the last template it was asked to match
    firmware          \* the firmware operation of each child device, and what the cloud saw of it

entityVars == <<entities, registered, lastOp, delivered, outbound>>

workflowVars == <<loadResult, registry, phase, cmd>>

chatVars == <<scenario, script, inbox, closed, routed>>

recoveryVars == <<agent, operation, retained, engine_in, instance, journal, observed,
                  clears, repo, manager, reports, startup, redelivered>>

adapterVars == <<converter>>

fanInVars == <<events, http_responses, fan_script, fan_sent, fan_dropped, merged>>

\* The actors around the MQTT actor.
runtimeVars == <<tasks, runtime>>

\* The functions of the libraries, called on their own.
libraryVars == <<smartrest, storage, c8y_operations, firmware>>

\* All that a call of a SmartREST function leaves alone.
allButSmartrest ==
    <<entities, registered, lastOp, delivered, outbound, loadResult, registry, phase, cmd,
      publish_channel, peer_channel, received, actor, client, sent,
      scenario, script, inbox, closed, routed,
      agent, operation, retained, engine_in, instance, journal, observed,
      clears, repo, manager, reports, startup, redelivered,
      converter, events, http_responses, fan_script, fan_sent, fan_dropped, merged,
      tasks, runtime, storage, c8y_operations, firmware>>

\* All that a call of the state repository leaves alone.
allButStorage ==
    <<entities, registered, lastOp, delivered, outbound, loadResult, registry, phase, cmd,
      publish_channel, peer_channel, received, actor, client, sent,
      scenario, script, inbox, closed, routed,
      agent, operation, retained, engine_in, instance, journal, observed,
      clears, repo, manager, reports, startup, redelivered,
      converter, events, http_responses, fan_script, fan_sent, fan_dropped, merged,
      tasks, runtime, smartrest, c8y_operations, firmware>>

\* All that a call of Operations leaves alone.
allButOperations ==
    <<entities, registered, lastOp, delivered, outbound, loadResult, registry, phase, cmd,
      publish_channel, peer_channel, received, actor, client, sent,
      scenario, script, inbox, closed, routed,
      agent, operation, retained, engine_in, instance, journal, observed,
      clears, repo, manager, reports, startup, redelivered,
      converter, events, http_responses, fan_script, fan_sent, fan_dropped, merged,
      tasks, runtime, smartrest, storage, firmware>>

\* All that the firmware manager leaves alone.
allButFirmware ==
    <<entities, registered, lastOp, delivered, outbound, loadResult, registry, phase, cmd,
      publish_channel, peer_channel, received, actor, client, sent,
      scenario, script, inbox, closed, routed,
      agent, operation, retained, engine_in, instance, journal, observed,
      clears, repo, manager, reports, startup, redelivered,
      converter, events, http_responses, fan_script, fan_sent, fan_dropped, merged,
      tasks, runtime, smartrest, storage, c8y_operations>>

actorsVars == <<adapterVars, fanInVars, runtimeVars, libraryVars>>

brokerVars == <<publish_channel, peer_channel, received, actor, client, sent, chatVars>>

mqttVars == <<brokerVars, actorsVars>>

vars == <<entities, registered, lastOp, delivered, outbound, loadResult, registry, phase, cmd,
          publish_channel, peer_channel, received, actor, client, sent,
          scenario, script, inbox, closed, routed,
          agent, operation, retained, engine_in, instance, journal, observed,
          clears, repo, manager, reports, startup, redelivered,
          converter, events, http_responses, fan_script, fan_sent, fan_dropped, merged,
          tasks, runtime, smartrest, storage, c8y_operations, firmware>>

(***************************************************************************)
(* Entity registration: model::State of entity_manager/tests.rs            *)
(***************************************************************************)

\* The topic names the actions are drawn from: a tree of depth 3 below the
\* main device, over the alphabet of random_name ("[abc]{1,3}").
Names == { <<"a">>, <<"b">>, <<"a", "a">>, <<"a", "a", "a">> }

Protocols == {"HTTP", "MQTT"}

ActionKinds == {"AddDevice", "AddService", "RemDevice", "RemService"}

Actions == [kind : ActionKinds, topic : Names]

\* An EntityTopicId device/<device>/service/<service>; device/<device>// has
\* the empty service.
EntityTopicId(device, service) == [device |-> device, service |-> service]

default_main_device == EntityTopicId(<<"main">>, <<>>)

\* Option::None for a parent topic id.
None == EntityTopicId(<<>>, <<>>)

Front(s) == SubSeq(s, 1, Len(s) - 1)

Last(s) == s[Len(s)]

IsAdd(action) == action.kind \in {"AddDevice", "AddService"}

IsDeviceAction(action) == action.kind \in {"AddDevice", "RemDevice"}

\* Action::parent: None for the empty topic, else (parent name, id).
HasParent(action) == Len(action.topic) # 0

ParentName(action) ==
    IF Len(action.topic) = 1 THEN <<"main">> ELSE Front(action.topic)

topic_id(action) ==
    IF ~HasParent(action) THEN default_main_device
    ELSE IF IsDeviceAction(action) THEN EntityTopicId(action.topic, <<>>)
    ELSE EntityTopicId(ParentName(action), <<Last(action.topic)>>)

parent_topic_id(action) ==
    IF HasParent(action) THEN EntityTopicId(ParentName(action), <<>>) ELSE None

\* The plausible slip of typing every device as the main device.
TargetTypeOfMain(action) ==
    IF IsDeviceAction(action) THEN "MainDevice" ELSE "Service"

target_type(action) ==
    IF ~HasParent(action) THEN "MainDevice"
    ELSE IF IsDeviceAction(action) THEN "ChildDevice"
    ELSE "Service"

\* The entities map with one more entry / with some entries removed.
Insert(ents, id, value) ==
    [e \in DOMAIN ents \cup {id} |-> IF e = id THEN value ELSE ents[e]]

Remove(ents, ids) == [e \in DOMAIN ents \ ids |-> ents[e]]

\* The plausible slip of a registration that promotes nothing.
CascadeRegistrationNone(ents, reg, new_entities) ==
    [registered |-> reg, out |-> new_entities]

\* State::cascade_registration: the result is the state's registered set and
\* the returned set of new entities.
RECURSIVE cascade_registration(_, _, _)
cascade_registration(ents, reg, new_entities) ==
    LET new_connected ==
            { e \in DOMAIN ents :
                /\ ents[e].parent # None
                /\ e \notin reg
                /\ ents[e].parent \in new_entities }
    IN  IF new_connected # {}
        THEN LET rec == cascade_registration(ents, reg \cup new_connected, new_connected)
             IN  [registered |-> rec.registered,
                  out |-> new_entities \cup rec.out]
        ELSE [registered |-> reg, out |-> new_entities]

\* The plausible slip of a single promotion pass, with no recursion.
RegisterOnePass(ents, reg, new_entity, parent) ==
    IF parent = None \/ parent \in reg
    THEN LET new_connected ==
                 { e \in DOMAIN ents :
                     /\ ents[e].parent # None
                     /\ e \notin reg
                     /\ ents[e].parent = new_entity }
         IN  [registered |-> reg \cup {new_entity} \cup new_connected,
              out |-> {new_entity} \cup new_connected]
    ELSE [registered |-> reg, out |-> {}]

\* The plausible slip of a response that names the new entity only, not
\* what the cascade promoted with it.
RegisterReturnsNewEntity(ents, reg, new_entity, parent) ==
    IF parent = None \/ parent \in reg
    THEN [registered |-> cascade_registration(ents, reg \cup {new_entity},
                                              {new_entity}).registered,
          out |-> {new_entity}]
    ELSE [registered |-> reg, out |-> {}]

\* The plausible slip of a parked entity reported as if it were registered.
RegisterParkedReturned(ents, reg, new_entity, parent) ==
    IF parent = None \/ parent \in reg
    THEN cascade_registration(ents, reg \cup {new_entity}, {new_entity})
    ELSE [registered |-> reg, out |-> {new_entity}]

\* The plausible slip of a registration that rebuilds the registered set from
\* the new entity and forgets the entities registered before.
RegisterForgetsOthers(ents, reg, new_entity, parent) ==
    IF parent = None \/ parent \in reg
    THEN LET rec == cascade_registration(ents, reg \cup {new_entity}, {new_entity})
         IN  [registered |-> {default_main_device, parent} \cup rec.out, out |-> rec.out]
    ELSE [registered |-> reg, out |-> {}]

\* State::register
register(ents, reg, new_entity, parent) ==
    IF parent = None \/ parent \in reg
    THEN cascade_registration(ents, reg \cup {new_entity}, {new_entity})
    ELSE [registered |-> reg, out |-> {}]

\* The plausible slip of a cascade that stops at the children.
CascadeDeregistrationOneLevel(ents, reg, old_entities) ==
    LET new_disconnected ==
            { e \in DOMAIN ents :
                /\ ents[e].parent # None
                /\ ents[e].parent \in old_entities }
    IN  [entities |-> Remove(ents, new_disconnected),
         registered |-> reg \ new_disconnected,
         out |-> old_entities \cup new_disconnected]

\* State::cascade_deregistration: the result is the state's entities and
\* registered set and the returned set of old entities.
RECURSIVE cascade_deregistration(_, _, _)
cascade_deregistration(ents, reg, old_entities) ==
    LET new_disconnected ==
            { e \in DOMAIN ents :
                /\ ents[e].parent # None
                /\ ents[e].parent \in old_entities }
    IN  IF new_disconnected # {}
        THEN LET rec == cascade_deregistration(Remove(ents, new_disconnected),
                                               reg \ new_disconnected,
                                               new_disconnected)
             IN  [entities |-> rec.entities, registered |-> rec.registered,
                  out |-> old_entities \cup rec.out]
        ELSE [entities |-> ents, registered |-> reg, out |-> old_entities]

\* The passes of State::register and State::cascade_registration, in the
\* order they are made: the new entity, then the entities each pass
\* connects.
RECURSIVE CascadePasses(_, _, _)
CascadePasses(ents, reg, new_entities) ==
    LET new_connected ==
            { e \in DOMAIN ents :
                /\ ents[e].parent # None
                /\ e \notin reg
                /\ ents[e].parent \in new_entities }
    IN  IF new_connected # {}
        THEN <<new_entities>> \o CascadePasses(ents, reg \cup new_connected, new_connected)
        ELSE <<new_entities>>

RegisterPasses(ents, reg, new_entity, parent) ==
    IF parent = None \/ parent \in reg
    THEN CascadePasses(ents, reg \cup {new_entity}, {new_entity})
    ELSE <<>>

\* The sequences that enumerate a set: a HashSet is iterated in any order.
Enumerations(set) ==
    { f \in [1..Cardinality(set) -> set] : \A i, j \in DOMAIN f : f[i] = f[j] => i = j }

\* The plausible slip of publishing the last pass first.
PublicationOrdersReversed(passes) ==
    LET RECURSIVE Rev(_)
        Rev(q) == IF q = <<>> THEN {<<>>}
                  ELSE { t \o h : t \in Rev(Tail(q)), h \in Enumerations(Head(q)) }
    IN  Rev(passes)

\* The orders in which the creation messages of a registration can be
\* published: pass after pass, any order within a pass.
RECURSIVE PublicationOrders(_)
PublicationOrders(passes) ==
    IF passes = <<>> THEN {<<>>}
    ELSE { h \o t : h \in Enumerations(Head(passes)), t \in PublicationOrders(Tail(passes)) }

\* The plausible slip of a deregistration that forgets the cascade.
DeregisterNoCascade(ents, reg, old_entity) ==
    IF old_entity \in reg
    THEN [entities |-> ents, registered |-> reg \ {old_entity}, out |-> {old_entity}]
    ELSE [entities |-> ents, registered |-> reg, out |-> {}]

\* The plausible slip of a response that names the deleted entity only, not
\* the descendants the cascade removed with it.
DeregisterReturnsTarget(ents, reg, old_entity) ==
    IF old_entity \in reg
    THEN LET r == cascade_deregistration(ents, reg \ {old_entity}, {old_entity})
         IN  [entities |-> r.entities, registered |-> r.registered,
              out |-> {old_entity}]
    ELSE [entities |-> ents, registered |-> reg, out |-> {}]

\* State::deregister
deregister(ents, reg, old_entity) ==
    IF old_entity \in reg
    THEN cascade_deregistration(ents, reg \ {old_entity}, {old_entity})
    ELSE [entities |-> ents, registered |-> reg, out |-> {}]

\* The plausible slip of a strict registration that parks the entity
\* instead of failing.
HttpParentMissingLax(ents, reg, protocol, action) ==
    FALSE

\* State::apply, the HTTP check of the parent: registering a child before
\* its parent is an error.
HttpParentMissing(ents, reg, protocol, action) ==
    /\ parent_topic_id(action) # None
    /\ protocol = "HTTP"
    /\ parent_topic_id(action) \notin reg

\* State::apply: the new entities and registered set, the returned updates,
\* whether the request was an error, and the set the cascade computed
\* (which is the response only under HTTP).
apply(ents, reg, protocol, action) ==
    LET topic == topic_id(action)
        parent == parent_topic_id(action)
        unchanged == [entities |-> ents, registered |-> reg, updates |-> {},
                      error |-> FALSE, cascade |-> {}]
    IN  IF IsAdd(action)
        THEN IF HttpParentMissing(ents, reg, protocol, action)
             THEN [unchanged EXCEPT !.error = TRUE]
             ELSE IF topic \in DOMAIN ents
             THEN unchanged
             ELSE LET ents2 == Insert(ents, topic,
                                      [type |-> target_type(action), parent |-> parent])
                      r == register(ents2, reg, topic, parent)
                  IN  [entities |-> ents2, registered |-> r.registered,
                       updates |-> IF protocol = "HTTP" THEN r.out ELSE {},
                       error |-> FALSE, cascade |-> r.out]
        ELSE IF topic \in DOMAIN ents
             THEN LET r == deregister(Remove(ents, {topic}), reg, topic)
                  IN  [entities |-> r.entities, registered |-> r.registered,
                       updates |-> IF protocol = "HTTP" THEN r.out ELSE {},
                       error |-> FALSE, cascade |-> r.out]
             ELSE unchanged

EmptyEntities == [e \in {} |-> None]

\* State::new: the main device, registered over HTTP in the empty state.
NewState ==
    apply(EmptyEntities, {}, "HTTP", [kind |-> "AddDevice", topic |-> <<>>])

NoOp == [protocol |-> "none", action |-> [kind |-> "none", topic |-> <<>>],
         updates |-> {}, error |-> FALSE, cascade |-> {},
         regBefore |-> {}, entBefore |-> EmptyEntities]

InitEntities ==
    /\ entities = NewState.entities
    /\ registered = NewState.registered
    /\ lastOp = NoOp
    /\ delivered = {}
    /\ outbound = <<>>

\* The external id of the main device (entity::server("device-under-test")).
main_device_id == "device-under-test"

\* The plausible slip of a default external id that names the device only.
DefaultExternalIdOfDevice(topic) ==
    IF topic = default_main_device THEN <<main_device_id>>
    ELSE <<main_device_id, ":device:">> \o topic.device

\* The external id of an entity registered with none: the id of the main
\* device, then :device:<device-id>, then :service:<svc-id> for a service.
default_external_id(topic) ==
    IF topic = default_main_device THEN <<main_device_id>>
    ELSE <<main_device_id, ":device:">> \o topic.device
         \o (IF topic.service = <<>> THEN <<>> ELSE <<":service:">> \o topic.service)

\* The creation messages a request makes the store publish: one for each
\* entity the request registers, none for a request that registers nothing.
Published(ents, reg, protocol, action) ==
    IF /\ IsAdd(action)
       /\ ~HttpParentMissing(ents, reg, protocol, action)
       /\ topic_id(action) \notin DOMAIN ents
    THEN PublicationOrders(
             RegisterPasses(Insert(ents, topic_id(action),
                                   [type |-> target_type(action),
                                    parent |-> parent_topic_id(action)]),
                            reg, topic_id(action), parent_topic_id(action)))
    ELSE {<<>>}

\* One request handled by the store: State::apply on the current state.
Apply(protocol, action) ==
    LET r == apply(entities, registered, protocol, action)
    IN  /\ entities' = r.entities
        /\ registered' = r.registered
        /\ lastOp' = [protocol |-> protocol, action |-> action,
                      updates |-> r.updates, error |-> r.error,
                      cascade |-> r.cascade,
                      regBefore |-> registered, entBefore |-> entities]
        /\ outbound' \in Published(entities, registered, protocol, action)

\* A registration, strict or lax.
Register == \E protocol \in Protocols, action \in Actions :
    /\ IsAdd(action)
    /\ Apply(protocol, action)
    /\ UNCHANGED <<delivered, workflowVars, mqttVars, recoveryVars>>

\* A deletion, strict or lax.
Delete == \E protocol \in Protocols, action \in Actions :
    /\ ~IsAdd(action)
    /\ Apply(protocol, action)
    /\ UNCHANGED <<delivered, workflowVars, mqttVars, recoveryVars>>

\* A registration delivered through the lax protocol, in any order.
LaxRegister == \E action \in Actions :
    /\ IsAdd(action)
    /\ Apply("MQTT", action)
    /\ delivered' = delivered \cup {action}
    /\ UNCHANGED <<workflowVars, mqttVars, recoveryVars>>

(***************************************************************************)
(* Operation workflows: tedge_api/src/workflow/mod.rs                      *)
(***************************************************************************)

\* OperationAction, the variants the workflows below are built from.
MoveTo(step) == [tag |-> "MoveTo", target |-> step]

BuiltIn == [tag |-> "BuiltIn", target |-> ""]

Clear == [tag |-> "Clear", target |-> ""]

\* The state names of the maps given to try_new, and the targets their
\* MoveTo actions name: "ghost" is a state no map defines.
InputStates == {"init", "scheduled", "successful", "failed"}

InputTargets == {"scheduled", "successful", "ghost"}

InputActions == {MoveTo(t) : t \in InputTargets} \cup {BuiltIn, Clear}

StateMaps == UNION { [D -> InputActions] : D \in SUBSET InputStates }

EmptyStates == [s \in {} |-> Clear]

\* HashMap::entry(key).or_insert(value)
OrInsert(states, key, value) ==
    [s \in DOMAIN states \cup {key} |-> IF s \in DOMAIN states THEN states[s] ELSE value]

Err(kind, state) ==
    [kind |-> kind, state |-> state, built_in |-> FALSE, states |-> EmptyStates]

Ok(built_in, states) ==
    [kind |-> "Ok", state |-> "", built_in |-> built_in, states |-> states]

\* The plausible slip of checking the successful state only.
TryNewFailedUnchecked(states) ==
    IF "init" \notin DOMAIN states THEN Err("MissingState", "init")
    ELSE LET with_success == OrInsert(states, "successful", Clear)
         IN  IF with_success["successful"] # Clear
             THEN Err("InvalidAction", "successful")
             ELSE Ok(FALSE, OrInsert(with_success, "failed", Clear))

\* OperationWorkflow::try_new
try_new(states) ==
    IF "init" \notin DOMAIN states THEN Err("MissingState", "init")
    ELSE LET with_success == OrInsert(states, "successful", Clear)
         IN  IF with_success["successful"] # Clear
             THEN Err("InvalidAction", "successful")
             ELSE LET with_failed == OrInsert(with_success, "failed", Clear)
                  IN  IF with_failed["failed"] # Clear
                      THEN Err("InvalidAction", "failed")
                      ELSE Ok(FALSE, with_failed)

\* The plausible slip of an init state that skips scheduled.
BuiltInSkipsScheduled ==
    Ok(TRUE,
       [s \in {"init", "scheduled", "executing", "successful", "failed"} |->
            CASE s = "init" -> MoveTo("executing")
              [] s = "scheduled" -> BuiltIn
              [] s = "executing" -> BuiltIn
              [] s = "successful" -> Clear
              [] s = "failed" -> Clear])

\* OperationWorkflow::built_in
built_in ==
    Ok(TRUE,
       [s \in {"init", "scheduled", "executing", "successful", "failed"} |->
            CASE s = "init" -> MoveTo("scheduled")
              [] s = "scheduled" -> BuiltIn
              [] s = "executing" -> BuiltIn
              [] s = "successful" -> Clear
              [] s = "failed" -> Clear])

\* The plausible slip of a default action for a state the workflow lacks.
GetActionDefault(workflow, status) ==
    IF status \in DOMAIN workflow.states
    THEN [ok |-> TRUE, action |-> workflow.states[status]]
    ELSE [ok |-> TRUE, action |-> BuiltIn]

\* OperationWorkflow::get_action: the action of the state, or the error
\* UnknownStep. inject_state leaves MoveTo, BuiltIn and Clear as they are.
get_action(workflow, status) ==
    IF status \in DOMAIN workflow.states
    THEN [ok |-> TRUE, action |-> workflow.states[status]]
    ELSE [ok |-> FALSE, action |-> Clear]

NoLoad == [call |-> "none", input |-> EmptyStates, result |-> Err("none", "")]

NoWorkflow == Err("none", "")

\* The operations: one with a user-defined workflow, one with the built-in
\* workflow, one the engine knows no workflow for.
Operations == {"custom", "restart", "unknown"}

CommandIds == {"c1", "c2"}

NoCommand == [op |-> "none", first |-> "none", prev |-> "none", status |-> "none",
              reason |-> "", cleared |-> FALSE, queue |-> <<>>, running |-> FALSE]

InitWorkflow ==
    /\ loadResult = NoLoad
    /\ registry = [op \in Operations |-> NoWorkflow]
    /\ phase = "loading"
    /\ cmd = [c \in CommandIds |-> NoCommand]

\* try_new applied to a state map.
TryNew == \E states \in StateMaps :
    /\ loadResult' = [call |-> "try_new", input |-> states, result |-> try_new(states)]
    /\ UNCHANGED <<registry, phase, cmd, entityVars, mqttVars, recoveryVars>>

\* built_in applied.
NewBuiltIn ==
    /\ loadResult' = [call |-> "built_in", input |-> EmptyStates, result |-> built_in]
    /\ UNCHANGED <<registry, phase, cmd, entityVars, mqttVars, recoveryVars>>

(***************************************************************************)
(* The workflow engine, after section 4.4 of the design: workflows are     *)
(* loaded at startup, then each message of a command topic is handled in   *)
(* turn.                                                                   *)
(***************************************************************************)

\* Startup: the built-in workflow of the restart operation is registered.
LoadBuiltIn ==
    /\ phase = "loading"
    /\ registry' = [registry EXCEPT !["restart"] = built_in]
    /\ UNCHANGED <<loadResult, phase, cmd, entityVars, mqttVars, recoveryVars>>

\* Startup: a workflow file of the custom operation is read; a definition
\* try_new refuses is skipped.
LoadUser == \E states \in StateMaps :
    /\ phase = "loading"
    /\ registry' = IF try_new(states).kind = "Ok"
                   THEN [registry EXCEPT !["custom"] = try_new(states)]
                   ELSE registry
    /\ UNCHANGED <<loadResult, phase, cmd, entityVars, mqttVars, recoveryVars>>

\* Startup is over: the engine subscribes to the command topics.
Start ==
    /\ phase = "loading"
    /\ phase' = "running"
    /\ UNCHANGED <<loadResult, registry, cmd, entityVars, mqttVars, recoveryVars>>

\* A retained message with this status is published on the topic of the
\* command: it is the state observed after the previous one, and it is in
\* flight to the engine.
Publish(command, status, reason) ==
    [command EXCEPT
        !.first = IF command.first = "none" THEN status ELSE command.first,
        !.prev = command.status,
        !.status = status,
        !.reason = reason,
        !.queue = Append(command.queue, status)]

\* The message at the head of the queue has been taken by the engine.
Taken(command) == [command EXCEPT !.queue = Tail(command.queue)]

\* The plausible slip of a step whose outcome is published twice.
PublishOutcomeTwice(command, status) ==
    Publish(Publish(command, status, ""), status, "")

\* The outcome of an action is published as the next state of the command.
PublishOutcome(command, status) == Publish(command, status, "")

\* The statuses the operation actor of a built-in step replies with.
OperationActorReplies(workflow, status) ==
    ((IF status = "scheduled" THEN {"executing"} ELSE {"successful"}) \cup {"failed"})
        \cap DOMAIN workflow.states

\* A requester creates a command: init is published on its topic.
CreateCommand == \E c \in CommandIds, op \in Operations :
    /\ phase = "running"
    /\ cmd[c].status = "none"
    /\ cmd' = [cmd EXCEPT ![c] = Publish([NoCommand EXCEPT !.op = op], "init", "")]
    /\ UNCHANGED <<loadResult, registry, phase, entityVars, mqttVars, recoveryVars>>

\* The engine receives the message in flight of a command whose operation
\* has no workflow: the terminal failed state is published with a reason.
ReceiveUnknownOperation == \E c \in CommandIds :
    /\ phase = "running"
    /\ cmd[c].queue # <<>>
    /\ ~cmd[c].running
    /\ registry[cmd[c].op] = NoWorkflow
    /\ cmd' = [cmd EXCEPT ![c] = Publish(Taken(cmd[c]), "failed", "unknown operation")]
    /\ UNCHANGED <<loadResult, registry, phase, entityVars, mqttVars, recoveryVars>>

\* The engine receives the message in flight of a command and the workflow
\* has no action for its status: failed is published with a reason.
ReceiveUnknownStep == \E c \in CommandIds :
    /\ phase = "running"
    /\ cmd[c].queue # <<>>
    /\ ~cmd[c].running
    /\ registry[cmd[c].op] # NoWorkflow
    /\ ~get_action(registry[cmd[c].op], Head(cmd[c].queue)).ok
    /\ cmd' = [cmd EXCEPT ![c] = Publish(Taken(cmd[c]), "failed", "unknown step")]
    /\ UNCHANGED <<loadResult, registry, phase, entityVars, mqttVars, recoveryVars>>

\* The engine receives the message in flight of a command and dispatches
\* the action of its status.
Dispatch == \E c \in CommandIds :
    /\ phase = "running"
    /\ cmd[c].queue # <<>>
    /\ ~cmd[c].running
    /\ registry[cmd[c].op] # NoWorkflow
    /\ LET got == get_action(registry[cmd[c].op], Head(cmd[c].queue))
       IN  /\ got.ok
           /\ cmd' = [cmd EXCEPT ![c] =
                 CASE got.action.tag = "MoveTo" ->
                          PublishOutcome(Taken(cmd[c]), got.action.target)
                   [] got.action.tag = "BuiltIn" ->
                          [Taken(cmd[c]) EXCEPT !.running = TRUE]
                   [] got.action.tag = "Clear" ->
                          [Taken(cmd[c]) EXCEPT !.cleared = TRUE]]
    /\ UNCHANGED <<loadResult, registry, phase, entityVars, mqttVars, recoveryVars>>

\* The operation actor of a built-in step replies with the new status.
Complete == \E c \in CommandIds :
    /\ phase = "running"
    /\ cmd[c].running
    /\ \E status \in OperationActorReplies(registry[cmd[c].op], cmd[c].status) :
          cmd' = [cmd EXCEPT ![c] =
                     PublishOutcome([cmd[c] EXCEPT !.running = FALSE], status)]
    /\ UNCHANGED <<loadResult, registry, phase, entityVars, mqttVars, recoveryVars>>

(***************************************************************************)
(* The MQTT actor: tedge_mqtt_ext/src/lib.rs, with the clients of          *)
(* mqtt_actor_can_reliably_forward_messages_under_load (tests.rs)          *)
(***************************************************************************)

\* channel(10) of MqttActorBuilder::new
PublishCapacity == 10

\* The mapper is built with no message buffer.
MapperCapacity == 0

\* SimpleMessageBoxBuilder::new(name, 16) of the other clients
ClientCapacity == 16

\* The number of messages the child device sends (99 in the test).
MaxMessages == 12

c8y_mapper_topic == "some/tedge/topic"

c8y_topic == "c8y/s/us"

alice_topic == "messages/for/alice"

bob_topic == "messages/for/bob"

\* subscriber_addresses, in the order the clients were added: the clients
\* of mqtt_actor_can_reliably_forward_messages_under_load, or those of
\* communicate_over_mqtt.
Clients ==
    IF scenario = "under_load" THEN <<"child_device", "c8y_mapper">>
    ELSE <<"alice", "bob", "spy">>

ClientNames == {Clients[i] : i \in DOMAIN Clients}

\* The subscriptions of each client: the topics its filter accepts.
Subscriptions(name) ==
    CASE name = "c8y_mapper" -> {c8y_mapper_topic}
      [] name = "alice" -> {alice_topic}
      [] name = "bob" -> {bob_topic}
      [] name = "spy" -> {alice_topic, bob_topic}
      [] OTHER -> {}

Capacity(name) ==
    IF name = "c8y_mapper" THEN MapperCapacity ELSE ClientCapacity

\* MqttActorBuilder::build: the actor subscribes to all the filters.
combined_topic_filter == UNION {Subscriptions(name) : name \in ClientNames}

\* TopicFilter::accept
Accept(name, message) == message.topic \in Subscriptions(name)

Message(topic) == [topic |-> topic, payload |-> "Hi Bob"]

NoMessage == [topic |-> "", payload |-> ""]

\* The plausible slip of a channel that hands over the newest message first.
ChannelSendFront(chan, buffer, sender, message) ==
    [queue |-> <<message>> \o chan.queue,
     parked |-> IF Len(chan.queue) + 1 > buffer
                THEN Append(chan.parked, sender) ELSE chan.parked]

\* A bounded mpsc channel: a sender that is not parked may always push its
\* message; it is parked when the channel then holds more than its buffer,
\* and its send completes once the receiver has unparked it.
ChannelSend(chan, buffer, sender, message) ==
    [queue |-> Append(chan.queue, message),
     parked |-> IF Len(chan.queue) + 1 > buffer
                THEN Append(chan.parked, sender) ELSE chan.parked]

\* The receiver takes the first message and unparks the first parked sender.
ChannelRecv(chan) ==
    [queue |-> Tail(chan.queue),
     parked |-> IF chan.parked = <<>> THEN <<>> ELSE Tail(chan.parked)]

IsParked(chan, sender) == \E i \in DOMAIN chan.parked : chan.parked[i] = sender

EmptyChannel == [queue |-> <<>>, parked |-> <<>>]

\* Every client holds its sender and its receiver, the connection is up.
NothingClosed == [senders |-> {}, receivers |-> {}, broker |-> FALSE]

\* MqttActor::run is over: it returned Ok(()) or an error.
Terminated == actor.pc \in {"returned", "failed"}

InitMqtt ==
    /\ scenario = "under_load"
    /\ publish_channel = EmptyChannel
    /\ peer_channel = [name \in ClientNames |-> EmptyChannel]
    /\ received = <<>>
    /\ actor = [pc |-> "recv", message |-> NoMessage, peer |-> 0]
    /\ client = [name \in ClientNames |-> [pc |-> "ready", message |-> NoMessage]]
    /\ sent = 0
    /\ script = [name \in ClientNames |-> <<>>]
    /\ inbox = [name \in ClientNames |-> <<>>]
    /\ closed = NothingClosed
    /\ routed = {}

\* The child device sends a message for the mapper through the actor; the
\* send completes once its sender is not parked.
ChildSend ==
    /\ client["child_device"].pc = "ready"
    /\ ~IsParked(publish_channel, "child_device")
    /\ sent < MaxMessages
    /\ sent' = sent + 1
    /\ publish_channel' = ChannelSend(publish_channel, PublishCapacity,
                                      "child_device", Message(c8y_mapper_topic))
    /\ UNCHANGED <<peer_channel, received, actor, client, entityVars, workflowVars, chatVars, recoveryVars, actorsVars>>

\* The mapper receives a message of its subscriptions, its previous send
\* being complete.
MapperRecv ==
    /\ client["c8y_mapper"].pc = "ready"
    /\ ~IsParked(publish_channel, "c8y_mapper")
    /\ peer_channel["c8y_mapper"].queue # <<>>
    /\ client' = [client EXCEPT !["c8y_mapper"].pc = "forwarding",
                                !["c8y_mapper"].message =
                                    Head(peer_channel["c8y_mapper"].queue)]
    /\ peer_channel' = [peer_channel EXCEPT
                            !["c8y_mapper"] = ChannelRecv(peer_channel["c8y_mapper"])]
    /\ UNCHANGED <<publish_channel, received, actor, sent, entityVars, workflowVars, chatVars, recoveryVars, actorsVars>>

\* The mapper, after its pause, sends the message back through the actor
\* on the cloud topic.
MapperSend ==
    /\ client["c8y_mapper"].pc = "forwarding"
    /\ publish_channel' = ChannelSend(publish_channel, PublishCapacity, "c8y_mapper",
                              [client["c8y_mapper"].message EXCEPT !.topic = c8y_topic])
    /\ client' = [client EXCEPT !["c8y_mapper"].pc = "ready",
                                !["c8y_mapper"].message = NoMessage]
    /\ UNCHANGED <<peer_channel, received, actor, sent, entityVars, workflowVars, chatVars, recoveryVars, actorsVars>>

\* MqttMessageBox::recv, the branch of peer_receiver.
RecvPeerMessage ==
    /\ actor.pc = "recv"
    /\ publish_channel.queue # <<>>
    /\ actor' = [pc |-> "PeerMessage", message |-> Head(publish_channel.queue), peer |-> 0]
    /\ publish_channel' = ChannelRecv(publish_channel)
    /\ UNCHANGED <<peer_channel, received, client, sent, entityVars, workflowVars, chatVars, recoveryVars, actorsVars>>

\* MqttMessageBox::recv, the branch of mqtt_client.received.
RecvDirectMessage ==
    /\ actor.pc = "recv"
    /\ received # <<>>
    /\ actor' = [pc |-> "DirectMessage", message |-> Head(received), peer |-> 1]
    /\ received' = Tail(received)
    /\ routed' = routed \cup {Head(received)}
    /\ UNCHANGED <<publish_channel, peer_channel, client, sent, scenario, script, inbox, closed,
                   entityVars, workflowVars, recoveryVars, actorsVars>>

\* The broker routes a published message back to the connection that
\* published it when the actor subscribed to its topic.
BrokerRoute(queue, message) ==
    IF message.topic \in combined_topic_filter /\ ~closed.broker
    THEN Append(queue, message) ELSE queue

\* MqttMessageBox::send of a PeerMessage: handed to the MQTT connection,
\* whose channels are unbounded, and routed by the broker.
SendPeerMessage ==
    /\ actor.pc = "PeerMessage"
    /\ received' = BrokerRoute(received, actor.message)
    /\ actor' = [pc |-> "recv", message |-> NoMessage, peer |-> 0]
    /\ UNCHANGED <<publish_channel, peer_channel, client, sent, entityVars, workflowVars, chatVars, recoveryVars, actorsVars>>

\* The loop of MqttMessageBox::send over peer_senders moves on.
NextPeer ==
    IF actor.peer = Len(Clients)
    THEN [pc |-> "recv", message |-> NoMessage, peer |-> 0]
    ELSE [actor EXCEPT !.pc = "DirectMessage", !.peer = actor.peer + 1]

\* The slip of a loop that skips a peer whose receiver is gone.
PeerSendSkipsDropped ==
    IF Clients[actor.peer] \in closed.receivers
    THEN /\ actor' = NextPeer
         /\ UNCHANGED peer_channel
    ELSE /\ peer_channel' = [peer_channel EXCEPT ![Clients[actor.peer]] =
                 ChannelSend(peer_channel[Clients[actor.peer]],
                             Capacity(Clients[actor.peer]), "actor", actor.message)]
         /\ actor' = [actor EXCEPT !.pc = "sending"]

\* peer_sender.send(message).await?: the send to a peer whose receiver was
\* dropped fails, and the error ends send and, in MqttActor::run, the actor,
\* which still holds the message.
PeerSend ==
    IF Clients[actor.peer] \in closed.receivers
    THEN /\ actor' = [actor EXCEPT !.pc = "failed"]
         /\ UNCHANGED peer_channel
    ELSE /\ peer_channel' = [peer_channel EXCEPT ![Clients[actor.peer]] =
                 ChannelSend(peer_channel[Clients[actor.peer]],
                             Capacity(Clients[actor.peer]), "actor", actor.message)]
         /\ actor' = [actor EXCEPT !.pc = "sending"]

\* MqttMessageBox::send of a DirectMessage, one turn of the loop: the
\* message is sent to the peer if its filter accepts it.
SendDirectMessage ==
    /\ actor.pc = "DirectMessage"
    /\ IF Accept(Clients[actor.peer], actor.message)
       THEN PeerSend
       ELSE /\ actor' = NextPeer
            /\ UNCHANGED peer_channel
    /\ UNCHANGED <<publish_channel, received, client, sent, entityVars, workflowVars, chatVars, recoveryVars, actorsVars>>

\* peer_sender.send(message).await completes: the sender is not parked.
DirectMessageSent ==
    /\ actor.pc = "sending"
    /\ ~IsParked(peer_channel[Clients[actor.peer]], "actor")
    /\ actor' = NextPeer
    /\ UNCHANGED <<publish_channel, peer_channel, received, client, sent,
                   entityVars, workflowVars, chatVars, recoveryVars, actorsVars>>

\* The messages of communicate_over_mqtt: Bob sends 1, 2, 3 to Alice and
\* Alice sends A, B, C to Bob, without awaiting any response.
ChatMessage(topic, payload) == [topic |-> topic, payload |-> payload]

ChatScript(name) ==
    CASE name = "bob" -> <<ChatMessage(alice_topic, "1"), ChatMessage(alice_topic, "2"),
                           ChatMessage(alice_topic, "3")>>
      [] name = "alice" -> <<ChatMessage(bob_topic, "A"), ChatMessage(bob_topic, "B"),
                             ChatMessage(bob_topic, "C")>>
      [] OTHER -> <<>>

\* The actor with the clients of communicate_over_mqtt.
InitChat ==
    /\ scenario = "communicate"
    /\ publish_channel = EmptyChannel
    /\ peer_channel = [name \in ClientNames |-> EmptyChannel]
    /\ received = <<>>
    /\ actor = [pc |-> "recv", message |-> NoMessage, peer |-> 0]
    /\ client = [name \in ClientNames |-> [pc |-> "ready", message |-> NoMessage]]
    /\ sent = 0
    /\ script = [name \in ClientNames |-> ChatScript(name)]
    /\ inbox = [name \in ClientNames |-> <<>>]
    /\ closed = NothingClosed
    /\ routed = {}

\* A client sends the next message of its script through the actor, its
\* previous send being complete.
ClientSend == \E name \in ClientNames :
    /\ script[name] # <<>>
    /\ name \notin closed.senders
    /\ ~Terminated
    /\ ~IsParked(publish_channel, name)
    /\ publish_channel' = ChannelSend(publish_channel, PublishCapacity,
                                      name, Head(script[name]))
    /\ script' = [script EXCEPT ![name] = Tail(script[name])]
    /\ UNCHANGED <<peer_channel, received, actor, client, sent, scenario, inbox, closed, routed,
                   entityVars, workflowVars, recoveryVars, actorsVars>>

\* A client receives the next message of its input channel.
ClientRecv == \E name \in ClientNames :
    /\ peer_channel[name].queue # <<>>
    /\ inbox' = [inbox EXCEPT ![name] = Append(inbox[name], Head(peer_channel[name].queue))]
    /\ peer_channel' = [peer_channel EXCEPT ![name] = ChannelRecv(peer_channel[name])]
    /\ UNCHANGED <<publish_channel, received, actor, client, sent, scenario, script, closed, routed,
                   entityVars, workflowVars, recoveryVars, actorsVars>>

\* The clients of the stop of the actor: those of communicate_over_mqtt,
\* Bob and Alice having one message each to send.
StopScript(name) ==
    CASE name = "bob" -> <<ChatMessage(alice_topic, "1")>>
      [] name = "alice" -> <<ChatMessage(bob_topic, "A")>>
      [] OTHER -> <<>>

InitStop ==
    /\ scenario = "stop"
    /\ publish_channel = EmptyChannel
    /\ peer_channel = [name \in ClientNames |-> EmptyChannel]
    /\ received = <<>>
    /\ actor = [pc |-> "recv", message |-> NoMessage, peer |-> 0]
    /\ client = [name \in ClientNames |-> [pc |-> "ready", message |-> NoMessage]]
    /\ sent = 0
    /\ script = [name \in ClientNames |-> StopScript(name)]
    /\ inbox = [name \in ClientNames |-> <<>>]
    /\ closed = NothingClosed
    /\ routed = {}

\* A client drops the sender add_client gave it: a clone of
\* publish_channel.0. What it has not sent is never sent.
DropSender == \E name \in ClientNames :
    /\ name \notin closed.senders
    /\ ~IsParked(publish_channel, name)
    /\ closed' = [closed EXCEPT !.senders = closed.senders \cup {name}]
    /\ UNCHANGED <<publish_channel, peer_channel, received, actor, client, sent,
                   scenario, script, inbox, routed,
                   entityVars, workflowVars, recoveryVars, actorsVars>>

\* A client drops the receiver of its input channel, the sender of which it
\* gave to add_client: what was queued is lost, a sender parked on the
\* channel is released.
DropReceiver == \E name \in ClientNames :
    /\ name \notin closed.receivers
    /\ closed' = [closed EXCEPT !.receivers = closed.receivers \cup {name}]
    /\ peer_channel' = [peer_channel EXCEPT ![name] = EmptyChannel]
    /\ UNCHANGED <<publish_channel, received, actor, client, sent,
                   scenario, script, inbox, routed,
                   entityVars, workflowVars, recoveryVars, actorsVars>>

\* The connection to the broker is closed: mqtt_client.received ends after
\* the messages it still holds.
BrokerClose ==
    /\ ~closed.broker
    /\ closed' = [closed EXCEPT !.broker = TRUE]
    /\ UNCHANGED <<publish_channel, peer_channel, received, actor, client, sent,
                   scenario, script, inbox, routed,
                   entityVars, workflowVars, recoveryVars, actorsVars>>

\* peer_receiver.next() is None: the channel is empty and every sender of it
\* was dropped (MqttActorBuilder::build drops that of the builder).
PeerReceiverEnded == publish_channel.queue = <<>> /\ closed.senders = ClientNames

\* mqtt_client.received.next() is None.
ReceivedEnded == received = <<>> /\ closed.broker

\* MqttMessageBox::recv, the branch else => None: both streams have ended.
RecvIsNone == PeerReceiverEnded /\ ReceivedEnded

\* MqttActor::run: recv returned None, the loop is over and run returns Ok(()).
RecvNone ==
    /\ actor.pc = "recv"
    /\ RecvIsNone
    /\ actor' = [actor EXCEPT !.pc = "returned"]
    /\ UNCHANGED <<publish_channel, peer_channel, received, client, sent, chatVars,
                   entityVars, workflowVars, recoveryVars, actorsVars>>

(***************************************************************************)
(* The old-agent adapter: c8y_mapper_ext/src/compatibility_adapter.rs      *)
(***************************************************************************)

\* Strings the adapter takes apart are sequences of tokens; the empty
\* string is the empty sequence.
Tokens == {"c8y", "-", "mapper", "1", "#", "+"}

\* A topic name, as its segments between the slashes.
Name(words) == [i \in DOMAIN words |-> IF words[i] = "" THEN <<>> ELSE <<words[i]>>]

\* OldAgentAdapter.prefix: format!("{topic_prefix}-mapper") for the c8y mapper
prefix == <<"c8y", "-", "mapper">>

\* The command ids of the topics and payloads given to the adapter.
CmdIds ==
    { <<"1">>, <<>>, <<"c8y", "-", "1">>, <<"mapper", "-", "1">>,
      prefix, prefix \o <<"-", "1">>, <<"#">>, prefix \o <<"-", "+">> }

\* serde_json::Value, the strings and one other kind of value
String(value) == [type |-> "String", value |-> value]

Number(value) == [type |-> "Number", value |-> value]

JsonValues ==
    {String(<<"init">>), String(<<"executing">>), String(<<"successful">>), Number(<<"1">>)}
    \cup {String(id) : id \in CmdIds}

Member(key, value) == [key |-> key, value |-> value]

\* The members the payloads are made of.
Members ==
    {Member("status", v) : v \in {String(<<"init">>), String(<<"executing">>),
                                  String(<<"successful">>), Number(<<"1">>)}}
    \cup {Member("id", v) : v \in {String(id) : id \in CmdIds} \cup {Number(<<"1">>)}}
    \cup {Member("reason", String(<<"1">>))}

\* The bytes of a payload: empty, the text of a JSON object with its members
\* in the order they are written, the text of another JSON value, or no
\* JSON text at all.
EmptyPayload == [kind |-> "empty", members |-> <<>>]

ObjectText(members) == [kind |-> "object", members |-> members]

ArrayText == [kind |-> "array", members |-> <<>>]

NotJson == [kind |-> "garbage", members |-> <<>>]

MaxMembers == 2

Payloads ==
    {EmptyPayload, ArrayText, NotJson}
    \cup {ObjectText(m) : m \in UNION {[1..n -> Members] : n \in 0..MaxMembers}}

\* serde_json::from_slice: the object a payload denotes, a later member
\* replacing an earlier one of the same key; not an object otherwise.
IsObject(payload) == payload.kind = "object"

from_slice(payload) ==
    LET keys == { payload.members[i].key : i \in DOMAIN payload.members }
        last(key) == CHOOSE i \in DOMAIN payload.members :
                        /\ payload.members[i].key = key
                        /\ \A j \in DOMAIN payload.members :
                              payload.members[j].key = key => j <= i
    IN  [key \in keys |-> payload.members[last(key)].value]

\* The keys in the order a serde_json::Map is written.
KeyOrder == <<"id", "reason", "status">>

\* serde_json::to_vec of an object: its members, sorted by key.
to_vec(object) ==
    LET keys == SelectSeq(KeyOrder, LAMBDA key : key \in DOMAIN object)
    IN  ObjectText([i \in DOMAIN keys |-> Member(keys[i], object[keys[i]])])

\* Map::insert and Map::remove
MapInsert(object, key, value) ==
    [k \in DOMAIN object \cup {key} |-> IF k = key THEN value ELSE object[k]]

MapRemove(object, key) == [k \in DOMAIN object \ {key} |-> object[k]]

\* Topic::new accepts a name that holds no wildcard.
valid_topic(name) ==
    \A i \in DOMAIN name : \A j \in DOMAIN name[i] : name[i][j] \notin {"#", "+"}

\* MqttMessage::new, with_qos(QoS::AtLeastOnce) and with_retain
MqttMessage(topic, payload) ==
    [topic |-> topic, payload |-> payload, qos |-> "AtLeastOnce", retain |-> FALSE]

with_retain(message) == [message EXCEPT !.retain = TRUE]

NoOutput == MqttMessage(<<>>, EmptyPayload)

\* Result<Option<MqttMessage>, String>
Converted(message) == [kind |-> "Some", message |-> message]

Ignored == [kind |-> "None", message |-> NoOutput]

Failed == [kind |-> "Err", message |-> NoOutput]

\* The plausible slip of passing every status on to the old agent.
ConvertAnyStatus(cmd_type, cmd_id, payload) ==
    IF payload = EmptyPayload THEN Ignored
    ELSE IF IsObject(payload) /\ "status" \in DOMAIN from_slice(payload)
            /\ from_slice(payload)["status"].type = "String"
    THEN Converted(MqttMessage(Name(<<"tedge", "commands", "req">> \o cmd_type),
            to_vec(MapRemove(MapInsert(from_slice(payload), "id", String(cmd_id)),
                             "status"))))
    ELSE Failed

\* The plausible slip of a request sent on the topic of the responses.
ConvertToResponseTopic(cmd_type, cmd_id, payload) ==
    IF payload = EmptyPayload THEN Ignored
    ELSE IF IsObject(payload) /\ "status" \in DOMAIN from_slice(payload)
            /\ from_slice(payload)["status"].type = "String"
    THEN IF from_slice(payload)["status"] # String(<<"init">>) THEN Ignored
         ELSE Converted(MqttMessage(Name(<<"tedge", "commands", "res">> \o cmd_type),
                 to_vec(MapRemove(MapInsert(from_slice(payload), "id", String(cmd_id)),
                                  "status"))))
    ELSE Failed

\* convert_to_old_agent_request
convert_to_old_agent_request(cmd_type, cmd_id, payload) ==
    IF payload = EmptyPayload THEN Ignored
    ELSE IF IsObject(payload) /\ "status" \in DOMAIN from_slice(payload)
            /\ from_slice(payload)["status"].type = "String"
    THEN IF from_slice(payload)["status"] # String(<<"init">>) THEN Ignored
         ELSE LET request == MapRemove(MapInsert(from_slice(payload), "id", String(cmd_id)),
                                       "status")
                  topic == Name(<<"tedge", "commands", "req">> \o cmd_type)
              IN  IF valid_topic(topic)
                  THEN Converted(MqttMessage(topic, to_vec(request)))
                  ELSE Failed
    ELSE Failed

\* str::starts_with
starts_with(string, start) ==
    Len(start) <= Len(string) /\ SubSeq(string, 1, Len(start)) = start

\* The plausible slip of prefixing every command id.
ConvertAlwaysPrefixed(cmd_prefix, cmd_type, payload) ==
    IF IsObject(payload) /\ "id" \in DOMAIN from_slice(payload)
       /\ from_slice(payload)["id"].type = "String"
    THEN LET cmd_id == from_slice(payload)["id"].value
             topic_name == Name(<<"te", "device", "main", "", "", "cmd", cmd_type>>)
                           \o <<cmd_prefix \o <<"-">> \o cmd_id>>
         IN  IF valid_topic(topic_name)
             THEN Converted(with_retain(MqttMessage(topic_name, payload)))
             ELSE Failed
    ELSE Failed

\* convert_from_old_agent_response
convert_from_old_agent_response(cmd_prefix, cmd_type, payload) ==
    IF IsObject(payload) /\ "id" \in DOMAIN from_slice(payload)
       /\ from_slice(payload)["id"].type = "String"
    THEN LET cmd_id == from_slice(payload)["id"].value
             topic_name ==
                 Name(<<"te", "device", "main", "", "", "cmd", cmd_type>>)
                 \o <<IF starts_with(cmd_id, cmd_prefix) THEN cmd_id
                      ELSE cmd_prefix \o <<"-">> \o cmd_id>>
         IN  IF valid_topic(topic_name)
             THEN Converted(with_retain(MqttMessage(topic_name, payload)))
             ELSE Failed
    ELSE Failed

\* try_convert
try_convert(cmd_prefix, input) ==
    LET topic == input.topic
        payload == input.payload
        is(words) == topic = Name(words)
        on(op) ==
            /\ Len(topic) = 8
            /\ SubSeq(topic, 2, 7) = Name(<<"device", "main", "", "", "cmd", op>>)
    IN  IF is(<<"tedge", "commands", "res", "control", "restart">>)
        THEN convert_from_old_agent_response(cmd_prefix, "restart", payload)
        ELSE IF is(<<"tedge", "commands", "res", "software", "list">>)
        THEN convert_from_old_agent_response(cmd_prefix, "software_list", payload)
        ELSE IF is(<<"tedge", "commands", "res", "software", "update">>)
        THEN convert_from_old_agent_response(cmd_prefix, "software_update", payload)
        ELSE IF on("restart")
        THEN convert_to_old_agent_request(<<"control", "restart">>, topic[8], payload)
        ELSE IF on("software_list")
        THEN convert_to_old_agent_request(<<"software", "list">>, topic[8], payload)
        ELSE IF on("software_update")
        THEN convert_to_old_agent_request(<<"software", "update">>, topic[8], payload)
        ELSE Ignored

\* OldAgentAdapter::convert: the messages to send and whether an error was
\* logged; the result is never an error.
convert(cmd_prefix, input) ==
    LET result == try_convert(cmd_prefix, input)
    IN  [output |-> IF result.kind = "Some" THEN <<result.message>> ELSE <<>>,
         logged |-> result.kind = "Err"]

\* The topics of the messages given to the adapter: those it subscribes to
\* (old_and_new_command_topics) and some others.
LegacyResponseTopics ==
    { Name(<<"tedge", "commands", "res", "control", "restart">>),
      Name(<<"tedge", "commands", "res", "software", "list">>),
      Name(<<"tedge", "commands", "res", "software", "update">>) }

AdapterOperations == {"restart", "software_list", "software_update"}

CommandTopics ==
    { Name(<<"te", "device", "main", "", "", "cmd", op>>) \o <<cmd_id>> :
        op \in AdapterOperations, cmd_id \in {<<"1">>, <<>>, prefix \o <<"-", "1">>} }

OtherTopics ==
    { Name(<<"tedge", "commands", "res", "software", "other">>),
      Name(<<"te", "device", "child", "", "", "cmd", "restart">>) \o <<<<"1">>>>,
      Name(<<"te", "device", "main", "", "", "cmd", "config_update">>) \o <<<<"1">>>> }

AdapterTopics == LegacyResponseTopics \cup CommandTopics \cup OtherTopics

NoInput == MqttMessage(<<>>, EmptyPayload)

\* old_and_new_command_topics: the filters the adapter subscribes with.
old_and_new_command_topics ==
    { Name(<<"tedge", "commands", "res", "control", "restart">>),
      Name(<<"tedge", "commands", "res", "software", "list">>),
      Name(<<"tedge", "commands", "res", "software", "update">>),
      Name(<<"te", "device", "main", "", "", "cmd", "restart", "+">>),
      Name(<<"te", "device", "main", "", "", "cmd", "software_list", "+">>),
      Name(<<"te", "device", "main", "", "", "cmd", "software_update", "+">>) }

\* TopicFilter::accept_topic: "+" stands for any one segment.
accept_topic(filters, topic) ==
    \E filter \in filters :
        /\ Len(filter) = Len(topic)
        /\ \A i \in DOMAIN filter : filter[i] = <<"+">> \/ filter[i] = topic[i]

\* No message for the adapter.
InitAdapter ==
    converter = [input |-> NoInput, output |-> <<>>, logged |-> FALSE, handled |-> 1,
                 hops |-> 0]

\* A message for the adapter, any topic with any payload.
GivenAdapterInput ==
    \E topic \in AdapterTopics, payload \in Payloads :
        converter = [input |-> MqttMessage(topic, payload), output |-> <<>>,
                     logged |-> FALSE, handled |-> 0, hops |-> 0]

\* The converting actor handles its message: what convert returns is sent.
Convert ==
    LET result == convert(prefix, converter.input)
    IN  /\ converter.handled = 0
        /\ converter' = [converter EXCEPT !.output = result.output,
                                          !.logged = result.logged,
                                          !.handled = 1]
        /\ UNCHANGED <<entityVars, workflowVars, recoveryVars, brokerVars, fanInVars, runtimeVars, libraryVars>>

\* OldAgentAdapter::builder connects the adapter to the MQTT actor as a
\* source for its filters and as the sink of what it emits: a message it
\* emits on a topic it subscribes to comes back to it as its next input.
Feedback ==
    /\ converter.handled = 1
    /\ converter.output # <<>>
    /\ accept_topic(old_and_new_command_topics, converter.output[1].topic)
    /\ converter' = [input |-> converter.output[1], output |-> <<>>, logged |-> FALSE,
                     handled |-> 0, hops |-> converter.hops + 1]
    /\ UNCHANGED <<entityVars, workflowVars, recoveryVars, brokerVars, fanInVars, runtimeVars, libraryVars>>

(***************************************************************************)
(* The fan-in of the config manager:                                       *)
(* c8y_configuration_poc/src/config_manager/actor.rs                       *)
(***************************************************************************)

\* The senders of the inputs: the MQTT actor, the file watcher and the HTTP
\* actor, each with a clone of the FanOutSender.
Sources == {"mqtt", "file", "http"}

\* fan_in_message_type!(ConfigInputAndResponse[MqttMessage, FileEvent, HttpResult])
InputType(source) ==
    CASE source = "mqtt" -> "MqttMessage"
      [] source = "file" -> "FileEvent"
      [] source = "http" -> "HttpResult"

\* The number of messages each source sends.
MaxInputs == 2

ConfigInputAndResponse(source, n) == [type |-> InputType(source), source |-> source, n |-> n]

\* new_box(capacity, output): mpsc::channel(capacity) for the events, the
\* capacity being that of a small box
EventsCapacity == 1

\* new_box: mpsc::channel(1) for the HTTP responses
HttpResponsesCapacity == 1

\* What a source has sent so far.
Sent(source) ==
    [n \in 1..(MaxInputs - Len(fan_script[source])) |-> ConfigInputAndResponse(source, n)]

InitFanIn ==
    /\ events = EmptyChannel
    /\ http_responses = EmptyChannel
    /\ fan_script = [source \in Sources |->
                        [n \in 1..MaxInputs |-> ConfigInputAndResponse(source, n)]]
    /\ fan_sent = <<>>
    /\ fan_dropped = {}
    /\ merged = [messages |-> <<>>, closed |-> FALSE]

\* FanOutSender::send: an HttpResult goes to the channel of the responses,
\* the other inputs to the channel of the events; the send completes once
\* the sender is not parked.
FanOutSend == \E source \in Sources \ fan_dropped :
    /\ fan_script[source] # <<>>
    /\ LET message == Head(fan_script[source])
       IN  IF message.type = "HttpResult"
           THEN /\ ~IsParked(http_responses, source)
                /\ http_responses' = ChannelSend(http_responses, HttpResponsesCapacity,
                                                  source, message)
                /\ UNCHANGED events
           ELSE /\ ~IsParked(events, source)
                /\ events' = ChannelSend(events, EventsCapacity, source, message)
                /\ UNCHANGED http_responses
    /\ fan_sent' = IF Head(fan_script[source]).type = "HttpResult" /\ fan_sent = <<>>
                   THEN Append(fan_sent, Len(Sent("mqtt")) + Len(Sent("file")))
                   ELSE fan_sent
    /\ fan_script' = [fan_script EXCEPT ![source] = Tail(fan_script[source])]
    /\ UNCHANGED <<fan_dropped, merged, entityVars, workflowVars, recoveryVars, brokerVars,
                   adapterVars, runtimeVars, libraryVars>>

\* A source is done and drops its clone of the FanOutSender.
FanOutDrop == \E source \in Sources \ fan_dropped :
    /\ fan_script[source] = <<>>
    /\ ~IsParked(events, source)
    /\ ~IsParked(http_responses, source)
    /\ fan_dropped' = fan_dropped \cup {source}
    /\ UNCHANGED <<events, http_responses, fan_script, fan_sent, merged,
                   entityVars, workflowVars, recoveryVars, brokerVars, adapterVars, runtimeVars, libraryVars>>

\* A channel yields None once it is empty and every sender was dropped.
Disconnected(chan, dropped) == chan.queue = <<>> /\ dropped = Sources

\* What recv returns: Some(message), the channels being what is left of
\* them, or None (the empty sequence).
Received(message, ev, responses) ==
    [message |-> message, events |-> ev, http_responses |-> responses]

\* The branch of the events, when they have a message.
FromEvents(ev, responses) ==
    IF ev.queue = <<>> THEN {}
    ELSE {Received(<<Head(ev.queue)>>, ChannelRecv(ev), responses)}

\* The branch of the HTTP responses, when they have a message.
FromResponses(ev, responses) ==
    IF responses.queue = <<>> THEN {}
    ELSE {Received(<<Head(responses.queue)>>, ev, ChannelRecv(responses))}

\* The plausible slip of a recv that ends as soon as the events end.
RecvUntilEventsEnd(ev, responses, dropped) ==
    IF Disconnected(ev, dropped) THEN {Received(<<>>, ev, responses)}
    ELSE FromEvents(ev, responses) \cup FromResponses(ev, responses)

\* ConfigManagerMessageBox::recv: the outcomes of tokio::select! over the
\* two channels: a message of either channel that has one, or None when
\* both have ended; no outcome while it waits.
recv(ev, responses, dropped) ==
    FromEvents(ev, responses) \cup FromResponses(ev, responses)
    \cup (IF Disconnected(ev, dropped) /\ Disconnected(responses, dropped)
          THEN {Received(<<>>, ev, responses)} ELSE {})

\* One call of recv by the owner of the message box.
FanInRecv ==
    /\ ~merged.closed
    /\ \E outcome \in recv(events, http_responses, fan_dropped) :
          /\ events' = outcome.events
          /\ http_responses' = outcome.http_responses
          /\ merged' = IF outcome.message = <<>>
                       THEN [merged EXCEPT !.closed = TRUE]
                       ELSE [merged EXCEPT !.messages = merged.messages \o outcome.message]
    /\ UNCHANGED <<fan_script, fan_sent, fan_dropped,
                   entityVars, workflowVars, recoveryVars, brokerVars, adapterVars, runtimeVars, libraryVars>>

(***************************************************************************)
(* The runtime and the actors it runs: c8y-device-management/src/main.rs,  *)
(* the supervisor being that of the design                                 *)
(***************************************************************************)

\* Actors main gives to runtime.spawn: the signal actor, the MQTT actor and
\* two of the managers.
SpawnedActors == {"Signal", "MQTT", "ConfigManager", "FirmwareManager"}

\* The result of run_to_completion.
NoResult == [tag |-> "pending", error |-> ""]

Success == [tag |-> "Ok", error |-> ""]

FatalError(name) == [tag |-> "Err", error |-> name]

\* runtime.spawn of each actor; the runtime is running, and has observed no
\* error.
InitRuntime ==
    /\ tasks = [name \in SpawnedActors |-> "running"]
    /\ runtime = [phase |-> "running", cause |-> "", errors |-> <<>>, result |-> NoResult]

AllTerminated(current) == \A name \in SpawnedActors : current[name] # "running"

\* A shutdown source fires while the runtime is running.
Trigger(cause) ==
    IF runtime.phase = "running"
    THEN [runtime EXCEPT !.phase = "shutdown", !.cause = cause]
    ELSE runtime

\* The process receives a signal: the signal actor asks the runtime to shut
\* down.
ExternalSignal ==
    /\ runtime.phase = "running"
    /\ tasks["Signal"] = "running"
    /\ runtime' = Trigger("signal")
    /\ UNCHANGED <<tasks, entityVars, workflowVars, recoveryVars, brokerVars,
                   adapterVars, fanInVars, libraryVars>>

\* An actor returns a fatal error: the runtime observes it, and shuts down.
ActorFails == \E name \in SpawnedActors :
    /\ tasks[name] = "running"
    /\ runtime.phase # "done"
    /\ tasks' = [tasks EXCEPT ![name] = "failed"]
    /\ runtime' = [Trigger("failure") EXCEPT !.errors = Append(runtime.errors, name)]
    /\ UNCHANGED <<entityVars, workflowVars, recoveryVars, brokerVars, adapterVars, fanInVars, libraryVars>>

\* An actor returns Ok(()): its input was closed, by the runtime or by its
\* peers, or its work is done. The completion of all the actors shuts the
\* runtime down.
ActorReturns == \E name \in SpawnedActors :
    /\ tasks[name] = "running"
    /\ runtime.phase # "done"
    /\ tasks' = [tasks EXCEPT ![name] = "returned"]
    /\ runtime' = IF AllTerminated(tasks') THEN Trigger("completion") ELSE runtime
    /\ UNCHANGED <<entityVars, workflowVars, recoveryVars, brokerVars, adapterVars, fanInVars, libraryVars>>

\* On shutdown the runtime closes all input channels and starts the grace
\* period.
CloseInputs ==
    /\ runtime.phase = "shutdown"
    /\ runtime' = [runtime EXCEPT !.phase = "closing"]
    /\ UNCHANGED <<tasks, entityVars, workflowVars, recoveryVars, brokerVars,
                   adapterVars, fanInVars, libraryVars>>

\* The slip of a runtime that waits for the actors and aborts none.
AbortNone(current) == current

\* The actors that have not returned are aborted.
Abort(current) ==
    [name \in SpawnedActors |->
        IF current[name] = "running" THEN "aborted" ELSE current[name]]

\* The grace period is over and some actor has not returned.
GraceExpires ==
    /\ runtime.phase = "closing"
    /\ ~AllTerminated(tasks)
    /\ tasks' = Abort(tasks)
    /\ UNCHANGED <<runtime, entityVars, workflowVars, recoveryVars, brokerVars,
                   adapterVars, fanInVars, libraryVars>>

\* The slip of a runtime that returns the last error it observed.
LastFatalError(errors) ==
    IF errors = <<>> THEN Success ELSE FatalError(errors[Len(errors)])

\* The first fatal error observed, or success.
FirstFatalError(errors) ==
    IF errors = <<>> THEN Success ELSE FatalError(Head(errors))

\* run_to_completion: the runtime has awaited the remaining tasks, and
\* returns.
RunToCompletion ==
    /\ runtime.phase = "closing"
    /\ AllTerminated(tasks)
    /\ runtime' = [runtime EXCEPT !.phase = "done", !.result = FirstFatalError(runtime.errors)]
    /\ UNCHANGED <<tasks, entityVars, workflowVars, recoveryVars, brokerVars,
                   adapterVars, fanInVars, libraryVars>>

(***************************************************************************)
(* SmartREST: c8y_api/src/smartrest/alarm.rs and inventory.rs, the         *)
(* serializer and the parser being those of the design (section 4.5)       *)
(***************************************************************************)

\* A piece of text of the given number of characters: a word that holds no
\* comma, quote or line end, or one of these characters.
Text(word, size) == [c |-> word, n |-> size]

Comma == Text(",", 1)

Quote == Text("\"", 1)

LineEnd == Text("\n", 1)

\* The number of characters of a string.
RECURSIVE Size(_)
Size(string) == IF string = <<>> THEN 0 ELSE Head(string).n + Size(Tail(string))

\* A field is quoted when it holds a comma, a quote or a line end.
NeedsQuotes(field) == \E i \in DOMAIN field : field[i] \in {Comma, Quote, LineEnd}

\* Embedded quotes are doubled.
RECURSIVE Escape(_)
Escape(field) ==
    IF field = <<>> THEN <<>>
    ELSE (IF Head(field) = Quote THEN <<Quote, Quote>> ELSE <<Head(field)>>)
         \o Escape(Tail(field))

\* The slip of a serializer that wraps a field and leaves its quotes alone.
SerializeFieldUnescaped(field) ==
    IF NeedsQuotes(field) THEN <<Quote>> \o field \o <<Quote>> ELSE field

\* One field of a line.
serialize_field(field) ==
    IF NeedsQuotes(field) THEN <<Quote>> \o Escape(field) \o <<Quote>> ELSE field

\* The fields of a line, separated by commas.
RECURSIVE Join(_)
Join(fields) ==
    IF Len(fields) = 1 THEN serialize_field(fields[1])
    ELSE serialize_field(Head(fields)) \o <<Comma>> \o Join(Tail(fields))

\* The payload ceiling: 16 KiB.
MaxPayloadSize == 16384

SmartrestOk(line) == [tag |-> "Ok", line |-> line]

\* The typed error of a payload over the ceiling.
TooLarge == [tag |-> "Err", error |-> "TooLarge"]

\* The slip of a ceiling that a payload of exactly 16 KiB already exceeds.
SerializeBelowCeiling(fields) ==
    IF Size(Join(fields)) >= MaxPayloadSize THEN TooLarge ELSE SmartrestOk(Join(fields))

\* SmartrestPayload::serialize: the line of the fields, or the error of a
\* line over the ceiling.
serialize(fields) ==
    IF Size(Join(fields)) > MaxPayloadSize THEN TooLarge ELSE SmartrestOk(Join(fields))

\* The parser of a line, one character at a time: at the start of a field, in
\* a plain field, in a quoted field, or just after a quote met in a quoted
\* field, which ends the field unless a second quote follows it.
RECURSIVE ParseFrom(_, _, _, _)
ParseFrom(line, at, field, fields) ==
    IF line = <<>> THEN Append(fields, field)
    ELSE LET next == Head(line)
             rest == Tail(line)
         IN  CASE next = Comma /\ at # "quoted" ->
                     ParseFrom(rest, "start", <<>>, Append(fields, field))
               [] next = Quote /\ at = "start" -> ParseFrom(rest, "quoted", field, fields)
               [] next = Quote /\ at = "quoted" -> ParseFrom(rest, "quote", field, fields)
               [] next = Quote /\ at = "quote" ->
                     ParseFrom(rest, "quoted", Append(field, Quote), fields)
               [] OTHER ->
                     ParseFrom(rest, IF at = "start" THEN "plain" ELSE at,
                               Append(field, next), fields)

parse(line) == ParseFrom(line, "start", <<>>, <<>>)

\* The characters of the fields of the round trip: a letter, a comma, a quote.
FieldCharacters == {Text("a", 1), Comma, Quote}

MaxFieldLength == 2

MaxFields == 2

SeqsUpTo(set, n) == UNION {[1..k -> set] : k \in 0..n}

FieldLists == UNION {[1..k -> SeqsUpTo(FieldCharacters, MaxFieldLength)] : k \in 1..MaxFields}

NoCall == [op |-> "", input |-> <<>>, output |-> <<>>, handled |-> 1]

InitSmartrest == smartrest = NoCall

\* Any list of fields is given to the serializer.
GivenFields ==
    \E fields \in FieldLists :
        smartrest = [op |-> "serialize", input |-> fields, output |-> <<>>, handled |-> 0]

\* The fields are serialized, and the line is parsed.
RoundTrip ==
    /\ smartrest.op = "serialize"
    /\ smartrest.handled = 0
    /\ LET result == serialize(smartrest.input)
       IN  smartrest' = [smartrest EXCEPT
               !.handled = 1,
               !.output = [result |-> result,
                           each |-> [i \in DOMAIN smartrest.input |->
                                        serialize_field(smartrest.input[i])],
                           parsed |-> IF result.tag = "Ok" THEN parse(result.line) ELSE <<>>]]
    /\ UNCHANGED allButSmartrest

\* The template codes (smartrest::message_ids), as the lines that
\* check_alarm_translation expects have them, and that of the catalog for
\* the creation of a child device.
CREATE_CRITICAL_ALARM == 301

CREATE_MAJOR_ALARM == 302

CREATE_MINOR_ALARM == 303

CREATE_WARNING_ALARM == 304

CLEAR_EXISTING_ALARM == 306

CHILD_DEVICE_CREATION == 101

\* A template code as a field: its three digits.
Display(code) == <<Text(ToString(code), 3)>>

\* A bool as a field.
DisplayBool(value) == IF value THEN <<Text("true", 4)>> ELSE <<Text("false", 5)>>

\* A call that panicked: the expect of a Result that is an error.
Panic == [tag |-> "Panic"]

\* time::error::Format
FormatError == [tag |-> "Err", error |-> "Format"]

AlarmSeverity == {"Critical", "Major", "Minor", "Warning"}

\* The slip of a translation that tells three severities only.
SerializeAlarmMinorAsWarning(c8y_alarm) ==
    IF c8y_alarm.kind = "Create"
    THEN IF ~c8y_alarm.time.rfc3339
         THEN FormatError
         ELSE LET smartrest_code ==
                      CASE c8y_alarm.severity = "Critical" -> CREATE_CRITICAL_ALARM
                        [] c8y_alarm.severity = "Major" -> CREATE_MAJOR_ALARM
                        [] OTHER -> CREATE_WARNING_ALARM
                  result == serialize(<<Display(smartrest_code), c8y_alarm.alarm_type,
                                        c8y_alarm.text, c8y_alarm.time.text>>)
              IN  IF result.tag = "Ok" THEN result ELSE Panic
    ELSE LET result == serialize(<<Display(CLEAR_EXISTING_ALARM), c8y_alarm.alarm_type>>)
         IN  IF result.tag = "Ok" THEN result ELSE Panic

\* serialize_alarm: the error of the time format is returned, that of the
\* serializer is given to expect.
serialize_alarm(c8y_alarm) ==
    IF c8y_alarm.kind = "Create"
    THEN IF ~c8y_alarm.time.rfc3339
         THEN FormatError
         ELSE LET smartrest_code ==
                      CASE c8y_alarm.severity = "Critical" -> CREATE_CRITICAL_ALARM
                        [] c8y_alarm.severity = "Major" -> CREATE_MAJOR_ALARM
                        [] c8y_alarm.severity = "Minor" -> CREATE_MINOR_ALARM
                        [] c8y_alarm.severity = "Warning" -> CREATE_WARNING_ALARM
                  result == serialize(<<Display(smartrest_code), c8y_alarm.alarm_type,
                                        c8y_alarm.text, c8y_alarm.time.text>>)
              IN  IF result.tag = "Ok" THEN result ELSE Panic
    ELSE LET result == serialize(<<Display(CLEAR_EXISTING_ALARM), c8y_alarm.alarm_type>>)
         IN  IF result.tag = "Ok" THEN result ELSE Panic

\* Option<&str>
NotGiven == [variant |-> "None", value |-> <<>>]

Given(value) == [variant |-> "Some", value |-> value]

unwrap_or(option, default) == IF option.variant = "Some" THEN option.value ELSE default

InvalidValueError(field_name, value) ==
    [tag |-> "Err", error |-> "InvalidValueError", field_name |-> field_name, value |-> value]

\* The topic prefix of the cloud.
c8y_prefix == "c8y"

\* publish_topic_from_parent: the upstream topic, that of the parent when
\* the parent is not the main device.
publish_topic_from_parent(parent, main_id, topic_prefix) ==
    IF parent.variant = "Some" /\ parent.value # <<main_id>>
    THEN <<topic_prefix, "/s/us/">> \o parent.value
    ELSE <<topic_prefix, "/s/us">>

\* The slip of a message that takes the type for the name.
ChildDeviceCreationTypeAsName(child_id, device_name, device_type, parent, main_id, topic_prefix, with_device_marker) ==
    IF child_id = <<>> THEN InvalidValueError("child_id", child_id)
    ELSE IF device_name = Given(<<>>) THEN InvalidValueError("device_name", <<>>)
    ELSE IF device_type = Given(<<>>) THEN InvalidValueError("device_type", <<>>)
    ELSE LET payload == serialize(<<Display(CHILD_DEVICE_CREATION),
                                    child_id,
                                    unwrap_or(device_type, <<Text("thin-edge.io-child", 18)>>),
                                    unwrap_or(device_name, child_id),
                                    DisplayBool(with_device_marker)>>)
         IN  IF payload.tag # "Ok" THEN Panic
             ELSE [tag |-> "Ok",
                   topic |-> publish_topic_from_parent(parent, main_id, topic_prefix),
                   line |-> payload.line]

\* child_device_creation_message
child_device_creation_message(child_id, device_name, device_type, parent, main_id, topic_prefix, with_device_marker) ==
    IF child_id = <<>> THEN InvalidValueError("child_id", child_id)
    ELSE IF device_name = Given(<<>>) THEN InvalidValueError("device_name", <<>>)
    ELSE IF device_type = Given(<<>>) THEN InvalidValueError("device_type", <<>>)
    ELSE LET payload == serialize(<<Display(CHILD_DEVICE_CREATION),
                                    child_id,
                                    unwrap_or(device_name, child_id),
                                    unwrap_or(device_type, <<Text("thin-edge.io-child", 18)>>),
                                    DisplayBool(with_device_marker)>>)
         IN  IF payload.tag # "Ok" THEN Panic
             ELSE [tag |-> "Ok",
                   topic |-> publish_topic_from_parent(parent, main_id, topic_prefix),
                   line |-> payload.line]

\* A text that makes a line of so many characters, the rest of the line
\* having the given size.
LongText(line_size, rest) == <<Text("xxx", line_size - rest)>>

\* The alarm type, the texts and the time of check_alarm_translation, and
\* texts that bring the line of a create alarm to the ceiling and one
\* character over it; a time that RFC 3339 cannot express.
TemperatureAlarm == <<Text("temperature_alarm", 17)>>

AlarmTexts ==
    { <<>>,
      <<Text("I raised it", 11)>>,
      <<Text("I", 1), Comma, Text(" raised", 7), Comma, Text(" it", 3)>>,
      <<Text("External ", 9), Quote, Text("sensor", 6), Quote, Text(" raised alarm", 13)>>,
      LongText(MaxPayloadSize, 3 + 1 + 17 + 1 + 1 + 25),
      LongText(MaxPayloadSize + 1, 3 + 1 + 17 + 1 + 1 + 25) }

AlarmTypes ==
    { TemperatureAlarm,
      <<Text("a", 1), Comma, Text("b", 1)>>,
      LongText(MaxPayloadSize, 3 + 1),
      LongText(MaxPayloadSize + 1, 3 + 1) }

AlarmTimes ==
    { [text |-> <<Text("2021-04-23T19:00:00+05:00", 25)>>, rfc3339 |-> TRUE],
      [text |-> <<>>, rfc3339 |-> FALSE] }

SourceInfos ==
    { [variant |-> "None", value |-> [id |-> "", source_type |-> ""]],
      Given([id |-> "External_source", source_type |-> "c8y_Serial"]) }

C8yAlarms ==
    [kind : {"Create"}, alarm_type : AlarmTypes, source : SourceInfos,
     severity : AlarmSeverity, text : AlarmTexts, time : AlarmTimes]
    \cup [kind : {"Clear"}, alarm_type : AlarmTypes, source : SourceInfos]

\* The child device pump1 of the main device, another child, and ids that
\* bring the line to the ceiling and over it.
Pump1Id == <<Text(main_device_id, 17), Text(":device:pump1", 13)>>

ChildIds ==
    { <<>>, Pump1Id,
      LongText(MaxPayloadSize, 3 + 1 + 1 + 5 + 1 + 18 + 1 + 4),
      LongText(MaxPayloadSize + 1, 3 + 1 + 1 + 5 + 1 + 18 + 1 + 4) }

DeviceNames == { NotGiven, Given(<<>>), Given(<<Text("pump1", 5)>>) }

DeviceTypes == { NotGiven, Given(<<>>), Given(<<Text("pump", 4)>>) }

Parents == { NotGiven, Given(<<main_device_id>>), Given(<<main_device_id, ":device:plant">>) }

ChildDevices ==
    [child_id : ChildIds, device_name : DeviceNames, device_type : DeviceTypes,
     parent : Parents, with_device_marker : BOOLEAN]

\* Fields that bring a line of two fields to the ceiling and over it.
LongFieldLists ==
    { <<Display(CHILD_DEVICE_CREATION), LongText(MaxPayloadSize + extra, 3 + 1)>> :
          extra \in {0, 1} }
    \cup { <<Display(CHILD_DEVICE_CREATION),
            <<Comma>> \o LongText(MaxPayloadSize + extra, 3 + 1 + 3)>> : extra \in {0, 1} }

\* Any alarm, any child device or a long list of fields is given to the
\* function that serializes it.
GivenSmartrest ==
    \/ \E c8y_alarm \in C8yAlarms :
           smartrest = [op |-> "serialize_alarm", input |-> c8y_alarm,
                        output |-> <<>>, handled |-> 0]
    \/ \E child \in ChildDevices :
           smartrest = [op |-> "child_device_creation_message", input |-> child,
                        output |-> <<>>, handled |-> 0]
    \/ \E fields \in LongFieldLists :
           smartrest = [op |-> "serialize", input |-> fields, output |-> <<>>, handled |-> 0]

SerializeAlarm ==
    /\ smartrest.op = "serialize_alarm"
    /\ smartrest.handled = 0
    /\ smartrest' = [smartrest EXCEPT !.handled = 1,
                                      !.output = serialize_alarm(smartrest.input)]
    /\ UNCHANGED allButSmartrest

ChildDeviceCreationMessage ==
    /\ smartrest.op = "child_device_creation_message"
    /\ smartrest.handled = 0
    /\ smartrest' = [smartrest EXCEPT
           !.handled = 1,
           !.output = child_device_creation_message(
                          smartrest.input.child_id, smartrest.input.device_name,
                          smartrest.input.device_type, smartrest.input.parent,
                          main_device_id, c8y_prefix, smartrest.input.with_device_marker)]
    /\ UNCHANGED allButSmartrest

(***************************************************************************)
(* The state repository of the agent (state_repository/state.rs) and the   *)
(* restart manager that keeps the restart operation in it                  *)
(* (restart_manager/tests.rs)                                              *)
(***************************************************************************)

\* Option::None and Option::Some of a field of State.
Absent == [variant |-> "None", value |-> ""]

Some(value) == [variant |-> "Some", value |-> value]

\* StateStatus::Software(SoftwareOperationVariants), written in lowercase
\* ("list", "update").
Software(value) == [variant |-> "Software", value |-> value]

\* StateStatus::Restart(RestartOperationStatus): "Pending", "Restarting".
Restart(value) == [variant |-> "Restart", value |-> value]

\* StateStatus::UnknownOperation, a unit variant of the untagged enum.
UnknownOperation == [variant |-> "UnknownOperation", value |-> ""]

\* struct State
State(operation_id, op) == [operation_id |-> operation_id, operation |-> op]

\* The state file: whether it exists, and its lines key = value.
File(lines) == [exists |-> TRUE, lines |-> lines]

Line(key, value) == [key |-> key, value |-> value]

LoadOk(state) == [kind |-> "Ok", state |-> state]

LoadErr(kind) == [kind |-> kind, state |-> State(Absent, Absent)]

\* The plausible slip of rename_all = "lowercase" given to the restart
\* status as it is to the software variants.
ParseStateStatusLowercase(value) ==
    CASE value \in {"list", "update"} -> [ok |-> TRUE, status |-> Software(value)]
      [] value \in {"pending", "restarting"} ->
             [ok |-> TRUE,
              status |-> Restart(IF value = "pending" THEN "Pending" ELSE "Restarting")]
      [] OTHER -> [ok |-> FALSE, status |-> Absent]

\* The untagged StateStatus read from a string: the first variant that
\* matches, Software then Restart.
ParseStateStatus(value) ==
    CASE value \in {"list", "update"} -> [ok |-> TRUE, status |-> Software(value)]
      [] value \in {"Pending", "Restarting"} -> [ok |-> TRUE, status |-> Restart(value)]
      [] OTHER -> [ok |-> FALSE, status |-> Absent]

\* toml::from_str::<State>: unknown and repeated keys are refused, a
\* missing key is None.
from_str(lines) ==
    LET keys == { lines[i].key : i \in DOMAIN lines }
        value(key) == lines[CHOOSE i \in DOMAIN lines : lines[i].key = key].value
        repeated == \E i, j \in DOMAIN lines : i # j /\ lines[i].key = lines[j].key
        id == IF "operation_id" \in keys THEN Some(value("operation_id")) ELSE Absent
        parsed == IF "operation" \in keys THEN ParseStateStatus(value("operation"))
                  ELSE [ok |-> TRUE, status |-> Absent]
    IN  IF repeated \/ ~(keys \subseteq {"operation_id", "operation"}) \/ ~parsed.ok
        THEN LoadErr("FromTOMLParse")
        ELSE LoadOk(State(id, parsed.status))

\* AgentStateRepository::load
load(file) ==
    IF ~file.exists THEN LoadErr("LoadingFromFileFailed") ELSE from_str(file.lines)

TomlOk(lines) == [ok |-> TRUE, lines |-> lines]

\* The plausible slip of software variants written as Rust names them,
\* rename_all = "lowercase" left out.
ToStringPrettyWithoutRename(state) ==
    IF state.operation = UnknownOperation THEN [ok |-> FALSE, lines |-> <<>>]
    ELSE TomlOk((IF state.operation_id = Absent THEN <<>>
                 ELSE <<Line("operation_id", state.operation_id.value)>>)
                \o (IF state.operation = Absent THEN <<>>
                    ELSE IF state.operation.variant = "Software"
                    THEN <<Line("operation",
                                IF state.operation.value = "list" THEN "List" ELSE "Update")>>
                    ELSE <<Line("operation", state.operation.value)>>))

\* StateError::FromTOMLSerialization
TomlErr == [ok |-> FALSE, lines |-> <<>>]

\* toml::to_string_pretty(&state): a field that is None is left out, a
\* status is written as the string of its variant; the unit variant
\* UnknownOperation has no TOML value and is refused.
to_string_pretty(state) ==
    IF state.operation = UnknownOperation THEN TomlErr
    ELSE TomlOk((IF state.operation_id = Absent THEN <<>>
                 ELSE <<Line("operation_id", state.operation_id.value)>>)
                \o (IF state.operation = Absent THEN <<>>
                    ELSE <<Line("operation", state.operation.value)>>))

StoreOk(file) == [ok |-> TRUE, file |-> file]

StoreErr(file) == [ok |-> FALSE, file |-> file]

\* AgentStateRepository::store, when nothing interrupts it: the result
\* and the file it leaves. The "?" on the serialization returns before
\* the file is touched.
store(file, state) ==
    LET toml == to_string_pretty(state)
    IN  IF toml.ok THEN StoreOk(File(toml.lines)) ELSE StoreErr(file)

\* AgentStateRepository::clear
clear(file) == store(file, State(Absent, Absent))

\* A RestartCommand of the main device: its id, its status, and the reason
\* of a failure.
RestartCommand(cmd_id, status, reason) ==
    [cmd_id |-> cmd_id, status |-> status, reason |-> reason]

\* What the restart manager reports of the operation it finds persisted
\* when it starts.
PendingRestartOperation(loaded) ==
    IF loaded.kind # "Ok" \/ loaded.state.operation_id = Absent THEN <<>>
    ELSE IF loaded.state.operation = Restart("Restarting")
    THEN <<RestartCommand(loaded.state.operation_id.value, "successful", "")>>
    ELSE IF loaded.state.operation = Restart("Pending")
    THEN <<RestartCommand(loaded.state.operation_id.value, "failed",
                          "The agent has been restarted but not the device")>>
    ELSE <<>>

(***************************************************************************)
(* The state repository called on its own, its store taken step by step:   *)
(* atomically_write_file_async writes a temporary file beside the state    *)
(* file and renames it over the state file.                                *)
(***************************************************************************)

\* No file at the path.
Missing == [exists |-> FALSE, lines |-> <<>>]

OperationIds == {Absent, Some("1234")}

StateStatuses ==
    {Absent, Software("list"), Software("update"), Restart("Pending"),
     Restart("Restarting"), UnknownOperation}

States == { State(operation_id, op) : operation_id \in OperationIds, op \in StateStatuses }

\* The state files an agent can find: none, or what a store left.
StateFiles ==
    {Missing} \cup { File(to_string_pretty(state).lines) :
                         state \in { s \in States : to_string_pretty(s).ok } }

NotLoaded == [kind |-> "none", state |-> State(Absent, Absent)]

\* A call of the repository that returned, or the store that was interrupted.
Returned(op, state, ok) == [op |-> op, state |-> state, ok |-> ok]

InitStorage ==
    storage = [file |-> File(<<>>), temp |-> Missing, pc |-> "idle", op |-> "none",
               state |-> State(Absent, Absent), content |-> <<>>, before |-> File(<<>>),
               last |-> Returned("none", State(Absent, Absent), TRUE),
               loaded |-> NotLoaded]

GivenStateFile ==
    \E file \in StateFiles :
        storage = [file |-> file, temp |-> Missing, pc |-> "idle", op |-> "none",
                   state |-> State(Absent, Absent), content |-> file.lines, before |-> file,
                   last |-> Returned("none", State(Absent, Absent), TRUE),
                   loaded |-> NotLoaded]

\* The slip of a store that writes the state file in place: the file is
\* truncated when it is opened for writing.
StoreTruncates(op, state) ==
    /\ storage.pc = "idle"
    /\ LET toml == to_string_pretty(state)
       IN  storage' =
               IF toml.ok
               THEN [storage EXCEPT !.pc = "writing", !.op = op, !.state = state,
                                    !.content = toml.lines, !.before = storage.file,
                                    !.file = File(<<>>), !.temp = File(<<>>),
                                    !.loaded = NotLoaded]
               ELSE [storage EXCEPT !.op = op, !.state = state, !.before = storage.file,
                                    !.content = storage.file.lines,
                                    !.last = Returned(op, state, FALSE),
                                    !.loaded = NotLoaded]
    /\ UNCHANGED allButStorage

\* AgentStateRepository::store up to the creation of the temporary file:
\* a state that cannot be serialized returns the error before any file is
\* touched.
StoreBegin(op, state) ==
    /\ storage.pc = "idle"
    /\ LET toml == to_string_pretty(state)
       IN  storage' =
               IF toml.ok
               THEN [storage EXCEPT !.pc = "writing", !.op = op, !.state = state,
                                    !.content = toml.lines, !.before = storage.file,
                                    !.temp = File(<<>>), !.loaded = NotLoaded]
               ELSE [storage EXCEPT !.op = op, !.state = state, !.before = storage.file,
                                    !.content = storage.file.lines,
                                    !.last = Returned(op, state, FALSE),
                                    !.loaded = NotLoaded]
    /\ UNCHANGED allButStorage

Store == \E state \in States : StoreBegin("store", state)

\* AgentStateRepository::clear
ClearStored == StoreBegin("clear", State(Absent, Absent))

\* One more line of the content reaches the temporary file.
WriteTemp ==
    /\ storage.pc = "writing"
    /\ Len(storage.temp.lines) < Len(storage.content)
    /\ storage' = [storage EXCEPT !.temp =
                       File(Append(storage.temp.lines,
                                   storage.content[Len(storage.temp.lines) + 1]))]
    /\ UNCHANGED allButStorage

\* The temporary file is complete and renamed over the state file; the
\* store returns.
Rename ==
    /\ storage.pc = "writing"
    /\ storage.temp.lines = storage.content
    /\ storage' = [storage EXCEPT !.file = storage.temp, !.temp = Missing, !.pc = "idle",
                                  !.last = Returned(storage.op, storage.state, TRUE)]
    /\ UNCHANGED allButStorage

\* The agent crashes or is restarted while it stores: what was written
\* of the temporary file stays behind.
Interrupt ==
    /\ storage.pc = "writing"
    /\ storage' = [storage EXCEPT !.pc = "idle",
                                  !.last = Returned("interrupted", storage.state, FALSE)]
    /\ UNCHANGED allButStorage

\* AgentStateRepository::load
Load ==
    /\ storage.pc = "idle"
    /\ storage.loaded = NotLoaded
    /\ storage' = [storage EXCEPT !.loaded = load(storage.file)]
    /\ UNCHANGED allButStorage

(***************************************************************************)
(* The operations a device supports and their SmartREST triggers           *)
(* (c8y_api smartrest/operations.rs)                                       *)
(***************************************************************************)

\* struct Operation: its name and the on_message of its exec, if any.
C8yOperation(name, on_message) == [name |-> name, on_message |-> on_message]

OperationNames == {"c8y_Restart", "c8y_Command", "c8y_Custom"}

OperationTemplates == {"510", "511"}

OperationsGiven ==
    { C8yOperation(name, on_message) :
        name \in OperationNames,
        on_message \in {NotGiven} \cup { Given(<<t>>) : t \in OperationTemplates } }

\* Operations::default(), and no template asked for.
NoMatch == [template |-> "", result |-> NotGiven]

InitOperations ==
    c8y_operations = [operations |-> <<>>, operations_by_trigger |-> <<>>, asked |-> NoMatch]

\* Vec::retain
RECURSIVE Retain(_, _)
Retain(list, op_name) ==
    IF list = <<>> THEN <<>>
    ELSE IF Head(list).name # op_name THEN <<Head(list)>> \o Retain(Tail(list), op_name)
    ELSE Retain(Tail(list), op_name)

\* Operations::add_operation: an operation whose name is in the list is
\* ignored; the trigger of a new one is mapped to its index, the length of
\* the list before the push (indices count from 0).
add_operation(ops, new_operation) ==
    IF \E i \in DOMAIN ops.operations : ops.operations[i].name = new_operation.name
    THEN ops
    ELSE [operations |-> Append(ops.operations, new_operation),
          operations_by_trigger |->
              IF new_operation.on_message.variant = "Some"
              THEN MapInsert(ops.operations_by_trigger, new_operation.on_message.value,
                          Len(ops.operations))
              ELSE ops.operations_by_trigger]

\* Operations::remove_operation: the list alone is changed.
remove_operation(ops, op_name) ==
    [operations |-> Retain(ops.operations, op_name),
     operations_by_trigger |-> ops.operations_by_trigger]

\* Operations::matching_smartrest_template: the operation at the index the
\* template is mapped to, if there is one (Vec::get counts from 0).
matching_smartrest_template(ops, operation_template) ==
    IF operation_template \notin DOMAIN ops.operations_by_trigger THEN NotGiven
    ELSE LET index == ops.operations_by_trigger[operation_template]
         IN  IF index < Len(ops.operations) THEN Given(ops.operations[index + 1])
             ELSE NotGiven

AddOperation ==
    \E new_operation \in OperationsGiven :
        /\ c8y_operations' =
               add_operation([operations |-> c8y_operations.operations,
                              operations_by_trigger |-> c8y_operations.operations_by_trigger],
                             new_operation)
               @@ [asked |-> NoMatch]
        /\ UNCHANGED allButOperations

RemoveOperation ==
    \E op_name \in OperationNames :
        /\ c8y_operations' =
               remove_operation([operations |-> c8y_operations.operations,
                                 operations_by_trigger |-> c8y_operations.operations_by_trigger],
                                op_name)
               @@ [asked |-> NoMatch]
        /\ UNCHANGED allButOperations

MatchingSmartrestTemplate ==
    \E t \in OperationTemplates :
        /\ c8y_operations.asked = NoMatch
        /\ c8y_operations' =
               [c8y_operations EXCEPT !.asked =
                   [template |-> t,
                    result |-> matching_smartrest_template(c8y_operations, <<t>>)]]
        /\ UNCHANGED allButOperations

(***************************************************************************)
(* The firmware manager of the c8y firmware plugin (firmware_manager.rs):  *)
(* one firmware operation for each child device, the timer of the download *)
(* manager, and the statuses published on the child's topic to the cloud.  *)
(***************************************************************************)

ChildDeviceIds == {"child1", "child2"}

\* How many responses a child device sends for its operation.
MaxChildResponses == 2

\* No entry of the operation timer.
NoTimer == "none"

\* enum ActiveOperationState
ActiveOperationStates == {"Pending", "Executing"}

InitFirmware ==
    firmware = [c \in ChildDeviceIds |->
                   [timer |-> NoTimer, requested |-> FALSE, responses |-> 0,
                    cloud |-> <<>>, last |-> "none"]]

\* fail_pending_firmware_operation_in_c8y: the statuses it publishes on
\* the topic of the child, in order.
fail_pending_firmware_operation_in_c8y(op_state) ==
    (IF op_state = "Pending" THEN <<"executing">> ELSE <<>>) \o <<"failed">>

\* A firmware request 515 of the cloud for a child device: the download
\* manager hands the request to the child and starts the timer of the
\* operation, pending.
FirmwareRequest ==
    \E c \in ChildDeviceIds :
        /\ ~firmware[c].requested
        /\ firmware' = [firmware EXCEPT ![c].requested = TRUE, ![c].timer = "Pending",
                                        ![c].last = "requested"]
        /\ UNCHANGED allButFirmware

\* A well-formed response of the child with the status executing, handled
\* by the download manager: executing is published unless the operation is
\* executing already, and the timer is started anew, executing.
ChildRespondsExecuting ==
    \E c \in ChildDeviceIds :
        /\ firmware[c].timer # NoTimer
        /\ firmware[c].responses < MaxChildResponses
        /\ firmware' = [firmware EXCEPT
               ![c].responses = @ + 1,
               ![c].cloud = @ \o (IF firmware[c].timer = "Executing" THEN <<>>
                                  ELSE <<"executing">>),
               ![c].timer = "Executing",
               ![c].last = "executing"]
        /\ UNCHANGED allButFirmware

\* A well-formed response of the child with a final status, handled by the
\* download manager: the status is published, after executing if need be,
\* and the timer is stopped.
ChildRespondsFinal ==
    \E c \in ChildDeviceIds, status \in {"successful", "failed"} :
        /\ firmware[c].timer # NoTimer
        /\ firmware[c].responses < MaxChildResponses
        /\ firmware' = [firmware EXCEPT
               ![c].responses = @ + 1,
               ![c].cloud = @ \o (IF firmware[c].timer = "Executing" THEN <<>>
                                  ELSE <<"executing">>) \o <<status>>,
               ![c].timer = NoTimer,
               ![c].last = "reported by the child"]
        /\ UNCHANGED allButFirmware

\* handle_child_device_firmware_operation_response, for a response that
\* is not a FirmwareOperationResponse: the operation is failed as a pending
\* one, whatever its state; the download manager and its timer are not
\* called.
MalformedChildResponse ==
    \E c \in ChildDeviceIds :
        /\ firmware[c].responses < MaxChildResponses
        /\ firmware' = [firmware EXCEPT
               ![c].responses = @ + 1,
               ![c].cloud = @ \o fail_pending_firmware_operation_in_c8y("Pending"),
               ![c].last = "failed by the manager"]
        /\ UNCHANGED allButFirmware

\* run, the branch of next_timed_out_entry: the entry leaves the timer and
\* the operation is failed with the state the entry held.
ResponseTimeout ==
    \E c \in ChildDeviceIds :
        /\ firmware[c].timer # NoTimer
        /\ firmware' = [firmware EXCEPT
               ![c].cloud = @ \o fail_pending_firmware_operation_in_c8y(firmware[c].timer),
               ![c].timer = NoTimer,
               ![c].last = "failed by the manager"]
        /\ UNCHANGED allButFirmware

InitLibrary == InitSmartrest /\ InitStorage /\ InitOperations /\ InitFirmware

InitActors == InitAdapter /\ InitFanIn /\ InitRuntime /\ InitLibrary

(***************************************************************************)
(* The workflow engine with its persisted progress and its recovery when   *)
(* the agent restarts, after section 4.4 of the design; the built-in steps *)
(* of the restart operation are served by the restart manager.             *)
(***************************************************************************)

\* How often the agent is stopped other than by a restart operation.
MaxStops == 2

\* How many messages the broker delivers twice.
MaxRedeliveries == 1

\* OperationAction::AwaitingAgentRestart(AwaitHandlers)
AwaitingAgentRestart(on_success, on_error) ==
    [tag |-> "AwaitingAgentRestart", on_success |-> on_success, on_error |-> on_error]

\* OperationAction::Operation(OperationName, .., BgExitHandlers)
Operation(name, on_exec) == [tag |-> "Operation", operation |-> name, on_exec |-> on_exec]

\* OperationAction::AwaitOperationCompletion(AwaitHandlers, ..)
AwaitOperationCompletion(on_success, on_error) ==
    [tag |-> "AwaitOperationCompletion", on_success |-> on_success, on_error |-> on_error]

\* The workflows of the recovering engine: a custom operation that runs a
\* restart as a sub-operation, an update that awaits the restart of the
\* agent, and the built-in workflow of the restart operation.
RecoveryOperations == {"custom", "update", "restart"}

RecoveryWorkflow(op) ==
    CASE op = "custom" ->
             try_new("init" :> Operation("restart", "awaiting")
                     @@ "awaiting" :> AwaitOperationCompletion("successful", "failed"))
      [] op = "update" ->
             try_new("init" :> MoveTo("restarting")
                     @@ "restarting" :> AwaitingAgentRestart("successful", "failed"))
      [] OTHER -> built_in

\* The command a requester creates and the sub-command the engine creates
\* for it.
TopCommand == "c1"

SubCommand == "c1-sub"

RecoveryCommands == {TopCommand, SubCommand}

Terminal == {"successful", "failed"}

\* A message of a command topic on its way to the engine; replay marks a
\* retained message the broker sends again when the engine subscribes.
StateMessage(status, replay) == [status |-> status, replay |-> replay]

\* A publication on a command topic, with the command and the state whose
\* action made the engine publish it (none for the other publishers).
Publication(status, command, state) ==
    [status |-> status, command |-> command, state |-> state]

NoInstance == [status |-> "none", step |-> "none", resumed |-> FALSE,
               timer |-> FALSE, awaiting |-> FALSE]

\* The command topics: retained messages, messages in flight to the engine
\* and, for the record, all that was published.
Topics == [retained |-> retained, engine_in |-> engine_in, observed |-> observed]

\* A message is published and retained on the topic of a command; the
\* engine, when it runs, receives it.
PublishOn(topics, c, publication) ==
    [retained |-> [topics.retained EXCEPT ![c] = publication.status],
     engine_in |-> IF agent.state = "up"
                   THEN [topics.engine_in EXCEPT
                            ![c] = Append(@, StateMessage(publication.status, FALSE))]
                   ELSE topics.engine_in,
     observed |-> [topics.observed EXCEPT ![c] = Append(@, publication)]]

SetTopics(topics) ==
    /\ retained' = topics.retained
    /\ engine_in' = topics.engine_in
    /\ observed' = topics.observed

InitRecovery ==
    /\ agent = [state |-> "up", stops |-> 0]
    /\ operation = [c \in RecoveryCommands |-> "none"]
    /\ retained = [c \in RecoveryCommands |-> "none"]
    /\ engine_in = [c \in RecoveryCommands |-> <<>>]
    /\ instance = [c \in RecoveryCommands |-> NoInstance]
    /\ journal = [c \in RecoveryCommands |-> <<>>]
    /\ observed = [c \in RecoveryCommands |-> <<>>]
    /\ clears = [c \in RecoveryCommands |-> 0]
    /\ repo = File(<<>>)
    /\ manager = [pc |-> "startup", cmd_id |-> ""]
    /\ reports = <<>>
    /\ startup = [file |-> File(<<>>), reported |-> <<>>, count |-> 0]
    /\ redelivered = 0

WorkflowFor(c) == RecoveryWorkflow(operation[c])

\* The action of the state an instance is in.
ActionOf(c) == get_action(WorkflowFor(c), instance[c].status).action

EngineRuns == agent.state = "up"

\* A requester creates the command: init is published on its topic.
Request == \E op \in RecoveryOperations :
    /\ operation[TopCommand] = "none"
    /\ operation' = [operation EXCEPT ![TopCommand] = op]
    /\ SetTopics(PublishOn(Topics, TopCommand, Publication("init", "", "")))
    /\ UNCHANGED <<agent, instance, journal, clears, repo, manager, reports, startup,
                   redelivered, entityVars, workflowVars, mqttVars>>

\* The plausible slip of a recovery that never looks for the breadcrumb.
BreadcrumbNeverFound(persisted, message) == FALSE

\* On recovery the breadcrumb of a command is found: the state of the
\* replayed message is the last one persisted for the command.
BreadcrumbFound(persisted, message) ==
    /\ message.replay
    /\ persisted # <<>>
    /\ persisted[Len(persisted)] = message.status

\* The engine receives the next message of a command topic; an empty
\* message is the retraction of a cleared command.
EngineTake == \E c \in RecoveryCommands :
    /\ EngineRuns
    /\ engine_in[c] # <<>>
    /\ instance[c].step \in {"none", "done"}
    /\ LET message == Head(engine_in[c])
           found == BreadcrumbFound(journal[c], message)
       IN  instance' = [instance EXCEPT ![c] =
                IF message.status = "" THEN NoInstance
                ELSE [status |-> message.status,
                      step |-> IF found THEN "persisted" ELSE "taken",
                      resumed |-> found, timer |-> FALSE, awaiting |-> FALSE]]
    /\ engine_in' = [engine_in EXCEPT ![c] = Tail(@)]
    /\ UNCHANGED <<agent, operation, retained, journal, observed, clears, repo, manager,
                   reports, startup, redelivered, entityVars, workflowVars, mqttVars>>

\* The engine persists the transition of a command to a non-terminal state.
EnginePersist == \E c \in RecoveryCommands :
    /\ EngineRuns
    /\ instance[c].step = "taken"
    /\ ActionOf(c).tag # "Clear"
    /\ journal' = [journal EXCEPT ![c] = Append(@, instance[c].status)]
    /\ instance' = [instance EXCEPT ![c].step = "persisted"]
    /\ UNCHANGED <<agent, operation, retained, engine_in, observed, clears, repo, manager,
                   reports, startup, redelivered, entityVars, workflowVars, mqttVars>>

\* The plausible slip of an action dispatched as soon as the message is
\* received.
MayActUnpersisted(inst, action) == inst.step \in {"taken", "persisted"}

\* The action of a state is dispatched once the transition is persisted; a
\* terminal state is not persisted.
MayAct(inst, action) ==
    \/ inst.step = "persisted"
    \/ inst.step = "taken" /\ action.tag = "Clear"

CanAct(c, tag) ==
    /\ EngineRuns
    /\ instance[c].step \in {"taken", "persisted"}
    /\ ActionOf(c).tag = tag
    /\ MayAct(instance[c], ActionOf(c))

Done(c) == [instance EXCEPT ![c].step = "done"]

ByEngine(c, status) == Publication(status, c, instance[c].status)

\* move-to(S): a new retained message with status S is published.
ActMoveTo == \E c \in RecoveryCommands :
    /\ CanAct(c, "MoveTo")
    /\ SetTopics(PublishOn(Topics, c, ByEngine(c, ActionOf(c).target)))
    /\ instance' = Done(c)
    /\ UNCHANGED <<agent, operation, journal, clears, repo, manager, reports, startup,
                   redelivered, entityVars, workflowVars, mqttVars>>

\* sub-operation: init is published on the topic of the sub-command and the
\* command moves to the state where it awaits the sub-command.
ActOperation == \E c \in RecoveryCommands :
    /\ CanAct(c, "Operation")
    /\ operation[SubCommand] = "none"
    /\ operation' = [operation EXCEPT ![SubCommand] = ActionOf(c).operation]
    /\ SetTopics(PublishOn(PublishOn(Topics, SubCommand, ByEngine(c, "init")),
                           c, ByEngine(c, ActionOf(c).on_exec)))
    /\ instance' = Done(c)
    /\ UNCHANGED <<agent, journal, clears, repo, manager, reports, startup,
                   redelivered, entityVars, workflowVars, mqttVars>>

\* await-sub-operation-completion: the engine waits for the terminal state
\* of the sub-command.
ActAwaitOperationCompletion == \E c \in RecoveryCommands :
    /\ CanAct(c, "AwaitOperationCompletion")
    /\ instance' = [instance EXCEPT ![c].step = "done", ![c].awaiting = TRUE]
    /\ UNCHANGED <<agent, operation, retained, engine_in, journal, observed, clears, repo,
                   manager, reports, startup, redelivered,
                   entityVars, workflowVars, mqttVars>>

\* The terminal state of the sub-command has arrived: the command moves to
\* the success or error target accordingly.
SubOperationDone == \E c \in RecoveryCommands :
    /\ EngineRuns
    /\ instance[c].awaiting
    /\ \E i \in DOMAIN observed[SubCommand] :
          /\ observed[SubCommand][i].status \in Terminal
          /\ SetTopics(PublishOn(Topics, c, ByEngine(c,
                 IF observed[SubCommand][i].status = "successful"
                 THEN ActionOf(c).on_success ELSE ActionOf(c).on_error)))
    /\ instance' = [instance EXCEPT ![c].awaiting = FALSE]
    /\ UNCHANGED <<agent, operation, journal, clears, repo, manager, reports, startup,
                   redelivered, entityVars, workflowVars, mqttVars>>

\* await-agent-restart: with the breadcrumb found on recovery the step
\* succeeds; else the breadcrumb is there, persisted with the transition,
\* and a timeout is started.
ActAwaitingAgentRestart == \E c \in RecoveryCommands :
    /\ CanAct(c, "AwaitingAgentRestart")
    /\ IF instance[c].resumed
       THEN /\ SetTopics(PublishOn(Topics, c, ByEngine(c, ActionOf(c).on_success)))
            /\ instance' = Done(c)
       ELSE /\ instance' = [instance EXCEPT ![c].step = "done", ![c].timer = TRUE]
            /\ UNCHANGED <<retained, engine_in, observed>>
    /\ UNCHANGED <<agent, operation, journal, clears, repo, manager, reports, startup,
                   redelivered, entityVars, workflowVars, mqttVars>>

\* The timeout of an await-agent-restart step fires first: the step fails.
Timeout == \E c \in RecoveryCommands :
    /\ EngineRuns
    /\ instance[c].timer
    /\ SetTopics(PublishOn(Topics, c, ByEngine(c, ActionOf(c).on_error)))
    /\ instance' = [instance EXCEPT ![c].timer = FALSE]
    /\ UNCHANGED <<agent, operation, journal, clears, repo, manager, reports, startup,
                   redelivered, entityVars, workflowVars, mqttVars>>

\* The plausible slip of a clear that retracts the message whatever the
\* topic holds.
ClearPublishesAgain(current) == TRUE

\* clear publishes the empty retained message unless the command is cleared
\* already.
ClearPublishes(current) == current # ""

\* clear: the retained message is retracted and the instance dropped.
ActClear == \E c \in RecoveryCommands :
    /\ CanAct(c, "Clear")
    /\ clears' = [clears EXCEPT ![c] = @ + 1]
    /\ IF ClearPublishes(retained[c])
       THEN SetTopics(PublishOn(Topics, c, ByEngine(c, "")))
       ELSE UNCHANGED <<retained, engine_in, observed>>
    /\ instance' = [instance EXCEPT ![c] = NoInstance]
    /\ UNCHANGED <<agent, operation, journal, repo, manager, reports, startup,
                   redelivered, entityVars, workflowVars, mqttVars>>

\* A command is new to the restart manager when nothing was done for it.
IsNewCommand(status) == status \in {"init", "scheduled"}

\* built-in: the engine hands the command to the restart manager. A new
\* command is recorded as pending and answered with status executing, which
\* the engine publishes; the restart follows. A command under way is left
\* alone.
ActBuiltIn == \E c \in RecoveryCommands :
    /\ CanAct(c, "BuiltIn")
    /\ IF IsNewCommand(instance[c].status)
       THEN /\ manager.pc = "idle"
            /\ repo' = store(repo, State(Some(c), Restart("Pending"))).file
            /\ reports' = Append(reports, RestartCommand(c, "executing", ""))
            /\ manager' = [pc |-> "restarting", cmd_id |-> c]
            /\ SetTopics(PublishOn(Topics, c, ByEngine(c, "executing")))
       ELSE UNCHANGED <<repo, reports, manager, retained, engine_in, observed>>
    /\ instance' = Done(c)
    /\ UNCHANGED <<agent, operation, journal, clears, startup, redelivered,
                   entityVars, workflowVars, mqttVars>>

\* All that the agent holds in memory is lost when it stops.
Stopped ==
    /\ instance' = [c \in RecoveryCommands |-> NoInstance]
    /\ engine_in' = [c \in RecoveryCommands |-> <<>>]
    /\ manager' = [pc |-> "down", cmd_id |-> ""]

\* The restart manager restarts the device: the operation is recorded as
\* restarting and the agent goes down with the device.
ManagerRestart ==
    /\ EngineRuns
    /\ manager.pc = "restarting"
    /\ repo' = store(repo, State(Some(manager.cmd_id), Restart("Restarting"))).file
    /\ agent' = [agent EXCEPT !.state = "down"]
    /\ Stopped
    /\ UNCHANGED <<operation, retained, journal, observed, clears, reports, startup,
                   redelivered, entityVars, workflowVars, mqttVars>>

\* The restart manager starts: it reports the outcome of the operation it
\* finds persisted, if any, and clears the repository.
ManagerStartup ==
    /\ EngineRuns
    /\ manager.pc = "startup"
    /\ LET reported == PendingRestartOperation(load(repo))
       IN  /\ reports' = reports \o reported
           /\ startup' = [file |-> repo, reported |-> reported, count |-> 1]
           /\ IF reported = <<>>
              THEN UNCHANGED <<retained, engine_in, observed>>
              ELSE SetTopics(PublishOn(Topics, reported[1].cmd_id,
                                       Publication(reported[1].status, "", "")))
    /\ repo' = clear(repo).file
    /\ manager' = [pc |-> "idle", cmd_id |-> ""]
    /\ UNCHANGED <<agent, operation, instance, journal, clears, redelivered,
                   entityVars, workflowVars, mqttVars>>

\* The agent is stopped, or crashes.
AgentStop ==
    /\ EngineRuns
    /\ agent.stops < MaxStops
    /\ agent' = [state |-> "down", stops |-> agent.stops + 1]
    /\ Stopped
    /\ UNCHANGED <<operation, retained, journal, observed, clears, repo, reports, startup,
                   redelivered, entityVars, workflowVars, mqttVars>>

\* The agent starts: the engine subscribes to the command topics and the
\* broker sends the retained messages again; the restart manager starts.
AgentStart ==
    /\ agent.state = "down"
    /\ agent' = [agent EXCEPT !.state = "up"]
    /\ engine_in' = [c \in RecoveryCommands |->
                         IF retained[c] \in {"none", ""} THEN <<>>
                         ELSE <<StateMessage(retained[c], TRUE)>>]
    /\ manager' = [pc |-> "startup", cmd_id |-> ""]
    /\ UNCHANGED <<operation, retained, instance, journal, observed, clears, repo, reports,
                   startup, redelivered, entityVars, workflowVars, mqttVars>>

\* The broker delivers the terminal message of a command a second time.
Redeliver == \E c \in RecoveryCommands :
    /\ EngineRuns
    /\ redelivered < MaxRedeliveries
    /\ \E i \in DOMAIN observed[c] :
          /\ observed[c][i].status \in Terminal
          /\ engine_in' = [engine_in EXCEPT
                              ![c] = Append(@, StateMessage(observed[c][i].status, FALSE))]
    /\ redelivered' = redelivered + 1
    /\ UNCHANGED <<agent, operation, retained, instance, journal, observed, clears, repo,
                   manager, reports, startup, entityVars, workflowVars, mqttVars>>

Init == InitEntities /\ InitWorkflow /\ InitMqtt /\ InitRecovery /\ InitActors

\* The entity registration model under strict and lax requests.
Next == Register \/ Delete

Spec == Init /\ [][Next]_vars

\* The entity registration model under lax registrations only.
NextLax == LaxRegister

SpecLax == Init /\ [][NextLax]_vars

\* The construction of workflows.
NextLoad == TryNew \/ NewBuiltIn

SpecLoad == Init /\ [][NextLoad]_vars

\* The workflow engine.
NextWorkflow ==
    \/ LoadBuiltIn
    \/ LoadUser
    \/ Start
    \/ CreateCommand
    \/ ReceiveUnknownOperation
    \/ ReceiveUnknownStep
    \/ Dispatch
    \/ Complete

SpecWorkflow == Init /\ [][NextWorkflow]_vars

\* The MQTT actor and its clients.
NextMqtt ==
    \/ ChildSend
    \/ MapperRecv
    \/ MapperSend
    \/ RecvPeerMessage
    \/ RecvDirectMessage
    \/ SendPeerMessage
    \/ SendDirectMessage
    \/ DirectMessageSent

SpecMqtt == Init /\ [][NextMqtt]_vars

\* The MQTT actor with the clients of communicate_over_mqtt.
InitCommunicate == InitEntities /\ InitWorkflow /\ InitChat /\ InitRecovery /\ InitActors

NextCommunicate ==
    \/ ClientSend
    \/ ClientRecv
    \/ RecvPeerMessage
    \/ RecvDirectMessage
    \/ SendPeerMessage
    \/ SendDirectMessage
    \/ DirectMessageSent

SpecCommunicate == InitCommunicate /\ [][NextCommunicate]_vars

\* The MQTT actor, its clients and the broker dropping their ends.
InitStopping == InitEntities /\ InitWorkflow /\ InitStop /\ InitRecovery /\ InitActors

NextStop ==
    \/ ClientSend
    \/ ClientRecv
    \/ DropSender
    \/ DropReceiver
    \/ BrokerClose
    \/ RecvPeerMessage
    \/ RecvDirectMessage
    \/ SendPeerMessage
    \/ SendDirectMessage
    \/ DirectMessageSent
    \/ RecvNone

SpecStop == InitStopping /\ [][NextStop]_vars

\* The inputs of the config manager, merged by its message box.
NextFanIn ==
    \/ FanOutSend
    \/ FanOutDrop
    \/ FanInRecv

SpecFanIn == Init /\ [][NextFanIn]_vars

\* The old-agent adapter, given any messages.
NextAdapter == Convert

InitGivenAdapterInput ==
    InitEntities /\ InitWorkflow /\ InitMqtt /\ InitRecovery /\ GivenAdapterInput /\ InitFanIn
    /\ InitRuntime /\ InitLibrary

SpecAdapter == InitGivenAdapterInput /\ [][NextAdapter]_vars

\* The old-agent adapter and the MQTT actor giving it back what it emits.
NextAdapterFeedback ==
    \/ Convert
    \/ Feedback

SpecAdapterFeedback == InitGivenAdapterInput /\ [][NextAdapterFeedback]_vars

\* The runtime and its actors.
NextRuntime ==
    \/ ExternalSignal
    \/ ActorFails
    \/ ActorReturns
    \/ CloseInputs
    \/ GraceExpires
    \/ RunToCompletion

SpecRuntime == Init /\ [][NextRuntime]_vars

\* The same, the runtime doing what it can do: its timer expires, and it is
\* not held up for ever. An actor may never return by itself.
SpecRuntimeFair ==
    /\ SpecRuntime
    /\ WF_vars(CloseInputs)
    /\ WF_vars(GraceExpires)
    /\ WF_vars(RunToCompletion)

\* All but the functions of the libraries, at rest.
InitAtRest ==
    InitEntities /\ InitWorkflow /\ InitMqtt /\ InitRecovery
    /\ InitAdapter /\ InitFanIn /\ InitRuntime

\* The SmartREST serializer and parser, given any fields.
NextRoundTrip == RoundTrip

InitGivenFields == InitAtRest /\ InitStorage /\ InitOperations /\ InitFirmware /\ GivenFields

SpecRoundTrip == InitGivenFields /\ [][NextRoundTrip]_vars

\* The functions that serialize SmartREST messages, given any input.
NextSmartrest ==
    \/ SerializeAlarm
    \/ ChildDeviceCreationMessage
    \/ RoundTrip

InitGivenSmartrest ==
    InitAtRest /\ InitStorage /\ InitOperations /\ InitFirmware /\ GivenSmartrest

SpecSmartrest == InitGivenSmartrest /\ [][NextSmartrest]_vars

\* The state repository: stores, interrupted or not, and loads.
NextRepository ==
    \/ Store
    \/ ClearStored
    \/ WriteTemp
    \/ Rename
    \/ Interrupt
    \/ Load

InitGivenStateFile ==
    InitAtRest /\ InitSmartrest /\ InitOperations /\ InitFirmware /\ GivenStateFile

SpecRepository == InitGivenStateFile /\ [][NextRepository]_vars

\* The operations of a device, added, removed and matched in any order.
NextOperations ==
    \/ AddOperation
    \/ RemoveOperation
    \/ MatchingSmartrestTemplate

InitNoOperations ==
    InitAtRest /\ InitSmartrest /\ InitStorage /\ InitOperations /\ InitFirmware

SpecOperations == InitNoOperations /\ [][NextOperations]_vars

\* The firmware manager, the child devices and the timer.
NextFirmware ==
    \/ FirmwareRequest
    \/ ChildRespondsExecuting
    \/ ChildRespondsFinal
    \/ MalformedChildResponse
    \/ ResponseTimeout

InitNoFirmwareOperation ==
    InitAtRest /\ InitSmartrest /\ InitStorage /\ InitOperations /\ InitFirmware

SpecFirmware == InitNoFirmwareOperation /\ [][NextFirmware]_vars

\* The engine, the restart manager and the restarts of the agent.
NextRecovery ==
    \/ Request
    \/ EngineTake
    \/ EnginePersist
    \/ ActMoveTo
    \/ ActOperation
    \/ ActAwaitOperationCompletion
    \/ SubOperationDone
    \/ ActAwaitingAgentRestart
    \/ Timeout
    \/ ActClear
    \/ ActBuiltIn
    \/ ManagerRestart
    \/ ManagerStartup
    \/ AgentStop
    \/ AgentStart
    \/ Redeliver

SpecRecovery == Init /\ [][NextRecovery]_vars

\* The same, the agent and its timers making progress: whatever can be
\* done is done in the end.
SpecRecoveryFair == SpecRecovery /\ WF_vars(NextRecovery)

(***************************************************************************)
(* Properties of the entity registration model                             *)
(***************************************************************************)

Pending == DOMAIN entities \ registered

PendingBefore == DOMAIN lastOp.entBefore \ lastOp.regBefore

LastIsAdd == lastOp.action.kind \in {"AddDevice", "AddService"}

LastIsRem == lastOp.action.kind \in {"RemDevice", "RemService"}

LastTarget == topic_id(lastOp.action)

LastParent == parent_topic_id(lastOp.action)

\* The chain of declared parents of a delivered registration reaches the
\* main device through delivered registrations only.
RECURSIVE ChainReachesMain(_, _)
ChainReachesMain(regs, a) ==
    \/ parent_topic_id(a) = default_main_device
    \/ \E b \in regs :
        /\ topic_id(b) = parent_topic_id(a)
        /\ ChainReachesMain(regs, b)

\* x is on the chain of parents of e in the store ents.
RECURSIVE HasAncestor(_, _, _)
HasAncestor(ents, e, x) ==
    /\ e \in DOMAIN ents
    /\ ents[e].parent # None
    /\ \/ ents[e].parent = x
       \/ HasAncestor(ents, ents[e].parent, x)

Descendants(ents, x) == { e \in DOMAIN ents : HasAncestor(ents, e, x) }

\* C1: whatever the order in which a set of registrations is delivered over
\* MQTT, the registered set is the main device and the delivered entities
\* whose chain of declared parents reaches the main device: a function of
\* the set delivered, not of the order.
C1_LaxOrderIndependent ==
    registered = {default_main_device}
                 \cup { topic_id(a) : a \in { b \in delivered : ChainReachesMain(delivered, b) } }

\* The whole chain a, aa, aaa was delivered child first and is registered.
C1_Witness ==
    /\ delivered = { [kind |-> "AddDevice", topic |-> <<"a">>],
                     [kind |-> "AddDevice", topic |-> <<"a", "a">>],
                     [kind |-> "AddService", topic |-> <<"a", "a", "a">>],
                     [kind |-> "AddService", topic |-> <<"b">>] }
    /\ lastOp.action = [kind |-> "AddDevice", topic |-> <<"a">>]
    /\ Cardinality(lastOp.cascade) = 3
    /\ Cardinality(registered) = 5

\* C2: every registered entity other than the main device has its declared
\* parent in the registered set.
C2_RegisteredParentRegistered ==
    \A e \in registered \ {default_main_device} :
        /\ e \in DOMAIN entities
        /\ entities[e].parent \in registered

\* A strict deletion cascaded over a registered subtree and left registered
\* children of the main device behind.
C2_Witness ==
    /\ LastIsRem
    /\ lastOp.protocol = "HTTP"
    /\ Cardinality(lastOp.cascade) >= 3
    /\ Cardinality(registered) >= 2

\* C3: no pending entity has a registered parent: the promotion of a
\* registration runs to its fixed point.
C3_NoPendingUnderRegistered ==
    \A e \in Pending : entities[e].parent \notin registered

\* The registration of a promoted its parked child aa and its parked
\* grandchild aaa in one operation.
C3_Witness ==
    /\ LastIsAdd
    /\ LastTarget = EntityTopicId(<<"a">>, <<>>)
    /\ { EntityTopicId(<<"a", "a">>, <<>>),
         EntityTopicId(<<"a", "a", "a">>, <<>>) } \subseteq PendingBefore
    /\ { EntityTopicId(<<"a">>, <<>>), EntityTopicId(<<"a", "a">>, <<>>),
         EntityTopicId(<<"a", "a", "a">>, <<>>) } \subseteq registered

\* C4: a strict registration whose parent is not registered is an error and
\* leaves the registered set and the pending set as they were.
C4_StrictParentMissing ==
    (/\ LastIsAdd
     /\ lastOp.protocol = "HTTP"
     /\ LastParent \notin lastOp.regBefore)
    => /\ lastOp.error
       /\ lastOp.updates = {}
       /\ registered = lastOp.regBefore
       /\ Pending = PendingBefore

\* A strict registration was refused while its parent was only pending.
C4_Witness ==
    /\ LastIsAdd
    /\ lastOp.protocol = "HTTP"
    /\ LastParent \in PendingBefore
    /\ lastOp.error

\* C5 as stated: a deletion removes the entity and every descendant of it,
\* registered or pending.
C5_DeleteRemovesAllDescendants ==
    (LastIsRem /\ LastTarget \in DOMAIN lastOp.entBefore)
    => /\ LastTarget \notin DOMAIN entities
       /\ DOMAIN entities \cap Descendants(lastOp.entBefore, LastTarget) = {}

\* C5 as amended: the deletion of a registered entity removes it and every
\* descendant of it; the deletion of a pending entity removes that entity
\* alone, its pending descendants stay parked.
C5_DeleteCascade ==
    /\ (LastIsRem /\ LastTarget \in lastOp.regBefore)
       => /\ LastTarget \notin DOMAIN entities
          /\ DOMAIN entities \cap Descendants(lastOp.entBefore, LastTarget) = {}
          /\ Descendants(lastOp.entBefore, LastTarget) \subseteq lastOp.regBefore
    /\ (LastIsRem /\ LastTarget \in PendingBefore)
       => /\ DOMAIN entities = DOMAIN lastOp.entBefore \ {LastTarget}
          /\ registered = lastOp.regBefore

\* The deletion of a registered device removed its child and grandchild.
C5_Witness ==
    /\ LastIsRem
    /\ LastTarget \in lastOp.regBefore
    /\ Cardinality(Descendants(lastOp.entBefore, LastTarget)) >= 2
    /\ DOMAIN entities \cap Descendants(lastOp.entBefore, LastTarget) = {}

\* The last request was a registration of an entity the store did not hold.
LastIsNewAdd == LastIsAdd /\ LastTarget \notin DOMAIN lastOp.entBefore

\* What the last request added to the registered set, and what it removed
\* from the store.
NewlyRegistered == registered \ lastOp.regBefore

Removed == DOMAIN lastOp.entBefore \ DOMAIN entities

\* C11 as stated: a successful strict registration returns exactly the set
\* that holds the newly registered topic id and nothing else.
C11_StrictReturnsSingleton ==
    (LastIsNewAdd /\ lastOp.protocol = "HTTP" /\ ~lastOp.error)
    => lastOp.updates = {LastTarget}

\* C11 as amended: a successful strict registration returns the set of the
\* topic ids it registered: the new entity and every pending descendant of
\* it, which it promotes; the singleton when no descendant was parked.
C11_StrictReturnsRegistered ==
    (LastIsNewAdd /\ lastOp.protocol = "HTTP" /\ ~lastOp.error)
    => /\ lastOp.updates = {LastTarget} \cup Descendants(lastOp.entBefore, LastTarget)
       /\ lastOp.updates = NewlyRegistered
       /\ Descendants(lastOp.entBefore, LastTarget) \subseteq PendingBefore

\* A strict registration promoted a descendant that a lax registration had
\* parked, and returned it with the new entity.
C11_Witness ==
    /\ LastIsNewAdd
    /\ lastOp.protocol = "HTTP"
    /\ ~lastOp.error
    /\ Cardinality(lastOp.updates) >= 2
    /\ LastTarget \in lastOp.updates

\* C12 as stated: a lax registration returns the set of topic ids its
\* cascade pass promoted.
C12_LaxReturnsPromoted ==
    (LastIsAdd /\ lastOp.protocol = "MQTT") => lastOp.updates = NewlyRegistered

\* C12 as amended: a lax registration sends no response back, its returned
\* set is empty; the set its cascade pass computes is what it adds to the
\* registered set: empty when the entity is only parked or already known,
\* the entity and every pending descendant of it otherwise.
C12_LaxCascadePromotes ==
    (LastIsAdd /\ lastOp.protocol = "MQTT")
    => /\ lastOp.updates = {}
       /\ lastOp.cascade = NewlyRegistered
       /\ ~LastIsNewAdd => lastOp.cascade = {} /\ entities = lastOp.entBefore
       /\ (LastIsNewAdd /\ LastParent \notin lastOp.regBefore)
              => lastOp.cascade = {} /\ LastTarget \in Pending
       /\ (LastIsNewAdd /\ LastParent \in lastOp.regBefore)
              => lastOp.cascade = {LastTarget}
                                  \cup Descendants(lastOp.entBefore, LastTarget)

\* A lax registration promoted the entity and two parked descendants, and
\* returned nothing.
C12_Witness ==
    /\ LastIsNewAdd
    /\ lastOp.protocol = "MQTT"
    /\ Cardinality(lastOp.cascade) >= 3
    /\ lastOp.cascade = NewlyRegistered
    /\ lastOp.updates = {}

\* C13 as stated: the response to a strict deletion is exactly the set of
\* topic ids it removed; the deletion of an entity that is not in the store
\* returns the empty set and changes nothing.
C13_StrictDeleteReturnsRemoved ==
    (LastIsRem /\ lastOp.protocol = "HTTP")
    => /\ lastOp.updates = Removed
       /\ LastTarget \notin DOMAIN lastOp.entBefore
              => /\ lastOp.updates = {}
                 /\ entities = lastOp.entBefore
                 /\ registered = lastOp.regBefore

\* C13 as amended: the response to the strict deletion of a registered
\* entity is exactly the set it removed, the target and all its descendants;
\* the strict deletion of a pending entity removes that entity and returns
\* the empty set; the deletion of an entity that is not in the store returns
\* the empty set and changes nothing.
C13_StrictDeleteResponse ==
    (LastIsRem /\ lastOp.protocol = "HTTP")
    => /\ LastTarget \in lastOp.regBefore
              => /\ lastOp.updates = Removed
                 /\ lastOp.updates = {LastTarget}
                                     \cup Descendants(lastOp.entBefore, LastTarget)
                 /\ registered = lastOp.regBefore \ lastOp.updates
       /\ LastTarget \in PendingBefore
              => /\ lastOp.updates = {}
                 /\ Removed = {LastTarget}
                 /\ registered = lastOp.regBefore
       /\ LastTarget \notin DOMAIN lastOp.entBefore
              => /\ lastOp.updates = {}
                 /\ entities = lastOp.entBefore
                 /\ registered = lastOp.regBefore

\* A strict deletion of a registered device returned it with its child and
\* its grandchild.
C13_Witness ==
    /\ LastIsRem
    /\ lastOp.protocol = "HTTP"
    /\ LastTarget \in lastOp.regBefore
    /\ Cardinality(lastOp.updates) >= 3
    /\ lastOp.updates = Removed

(***************************************************************************)
(* Properties of the workflows and of the engine                           *)
\* C31: a registration, strict or lax, accepted or not, never removes an
\* entity from the registered set: all that was registered before it is
\* registered after it.
C31_RegistrationKeepsRegistered ==
    LastIsAdd => lastOp.regBefore \subseteq registered

\* A lax registration promoted pending entities while two other devices
\* and the main device were registered, and they still are.
C31_Witness ==
    /\ LastIsNewAdd
    /\ lastOp.protocol = "MQTT"
    /\ Cardinality(lastOp.cascade) >= 2
    /\ Cardinality(lastOp.regBefore) >= 3
    /\ lastOp.regBefore \subseteq registered
    /\ registered = lastOp.regBefore \cup lastOp.cascade

C29_OneMainDevice ==
    /\ default_main_device \in DOMAIN entities
    /\ default_main_device \in registered
    /\ \A e \in DOMAIN entities :
          (entities[e].type = "MainDevice" \/ entities[e].parent = None)
              <=> e = default_main_device

\* A deletion cascaded and left the main device alone in the store.
C29_Witness ==
    /\ LastIsRem
    /\ Cardinality(lastOp.cascade) >= 2
    /\ DOMAIN entities = {default_main_device}
    /\ registered = {default_main_device}

\* A service was registered over MQTT before its parent, the child device
\* that the last request registers.
ServiceBeforeItsDevice(s) ==
    /\ LastIsAdd
    /\ lastOp.protocol = "MQTT"
    /\ lastOp.action.kind = "AddDevice"
    /\ LastTarget \in registered \ lastOp.regBefore
    /\ s \in PendingBefore
    /\ lastOp.entBefore[s].type = "Service"
    /\ lastOp.entBefore[s].parent = LastTarget

Created == { c \in CommandIds : cmd[c].status # "none" }

HasWorkflow(c) == registry[cmd[c].op] # NoWorkflow

WorkflowOf(c) == registry[cmd[c].op]

\* The states the action of a state can move a command to.
Targets(workflow, status) ==
    IF status \notin DOMAIN workflow.states THEN {}
    ELSE CASE workflow.states[status].tag = "MoveTo" -> {workflow.states[status].target}
           [] workflow.states[status].tag = "BuiltIn" -> OperationActorReplies(workflow, status)
           [] workflow.states[status].tag = "Clear" -> {}

\* C6 as stated: the states observed on the topic of a command follow the
\* state graph of its workflow from init: the first observed state is init,
\* and each later state is a target of the action of the state before it.
C6_ObservedStatesFollowGraph ==
    \A c \in Created :
        HasWorkflow(c) =>
            /\ cmd[c].first = "init"
            /\ cmd[c].prev # "none" =>
                   cmd[c].status \in Targets(WorkflowOf(c), cmd[c].prev)

\* C7: try_new fails with MissingState without an init state and, init
\* being there, with InvalidAction when successful or failed has an action
\* other than clear; a workflow it accepts is the given map with successful
\* and failed inserted as clear when omitted, and it and the built-in
\* workflow hold init, successful and failed, the last two mapped to clear.
C7_TryNewValidates ==
    LET input == loadResult.input
        result == loadResult.result
        BadTerminal(state) == state \in DOMAIN input /\ input[state] # Clear
    IN  /\ loadResult.call = "try_new" =>
            /\ "init" \notin DOMAIN input =>
                   result.kind = "MissingState" /\ result.state = "init"
            /\ ("init" \in DOMAIN input /\ (BadTerminal("successful") \/ BadTerminal("failed"))) =>
                   /\ result.kind = "InvalidAction"
                   /\ result.state \in {"successful", "failed"}
                   /\ BadTerminal(result.state)
            /\ result.kind = "Ok" =>
                   /\ DOMAIN result.states = DOMAIN input \cup {"successful", "failed"}
                   /\ \A state \in DOMAIN input : result.states[state] = input[state]
                   /\ ~result.built_in
        /\ (loadResult.call # "none" /\ loadResult.result.kind = "Ok") =>
            /\ {"init", "successful", "failed"} \subseteq DOMAIN result.states
            /\ result.states["successful"] = Clear
            /\ result.states["failed"] = Clear

\* try_new accepted a map that gives init alone: successful and failed were
\* inserted.
C7_Witness ==
    /\ loadResult.call = "try_new"
    /\ DOMAIN loadResult.input = {"init"}
    /\ loadResult.result.kind = "Ok"
    /\ DOMAIN loadResult.result.states = {"init", "successful", "failed"}

\* The targets the actions of a state map name.
NamedTargets(states) ==
    { states[state].target : state \in { x \in DOMAIN states : states[x].tag = "MoveTo" } }

\* C16: a workflow definition in which some action names a target state
\* that the workflow does not define is rejected when it is loaded: try_new
\* returns no workflow for it.
C16_DanglingTargetRejected ==
    (/\ loadResult.call = "try_new"
     /\ ~(NamedTargets(loadResult.input)
            \subseteq DOMAIN loadResult.input \cup {"successful", "failed"}))
    => loadResult.result.kind # "Ok"

\* The status is no state of the workflow of the command, or the operation
\* of the command has no workflow.
Unknown(c, status) ==
    \/ ~HasWorkflow(c)
    \/ status \notin DOMAIN WorkflowOf(c).states

\* C9: once the engine has handled a message whose operation has no
\* workflow or whose status is no state of the workflow, the command topic
\* holds failed with a reason; a command rests in no unknown state.
C9_UnknownBecomesFailed ==
    \A c \in Created :
        /\ (cmd[c].prev # "none" /\ Unknown(c, cmd[c].prev)) =>
               cmd[c].status = "failed" /\ cmd[c].reason # ""
        /\ (Unknown(c, cmd[c].status) /\ ~(cmd[c].status = "failed" /\ cmd[c].reason # "")) =>
               cmd[c].queue = <<cmd[c].status>> /\ ~cmd[c].running

\* One command was failed for its unknown operation, the other for a status
\* its workflow does not define.
C9_Witness ==
    /\ cmd["c1"].op = "unknown" /\ cmd["c1"].status = "failed"
    /\ cmd["c1"].reason = "unknown operation"
    /\ cmd["c2"].op = "custom" /\ cmd["c2"].prev = "ghost"
    /\ cmd["c2"].status = "failed" /\ cmd["c2"].reason = "unknown step"

ActorBlockedOn(name) ==
    /\ actor.pc = "sending"
    /\ Clients[actor.peer] = name
    /\ IsParked(peer_channel[name], "actor")

\* The send of the client waits for the actor to take a message from
\* publish_channel.
ClientBlocked(name) == IsParked(publish_channel, name)

\* C8: the deliveries to the peers and the publications of the peers never
\* block each other: the actor never waits for a peer to receive while that
\* peer waits for the actor to take what it publishes.
C8_ForwardAndPublishNeverDeadlock ==
    \A name \in ClientNames : ~(ActorBlockedOn(name) /\ ClientBlocked(name))

\* The messages a client received on a topic, and the messages the clients
\* were to publish on it, each in order.
ReceivedOn(name, topic) == SelectSeq(inbox[name], LAMBDA m : m.topic = topic)

PublishedOn(name, topic) == SelectSeq(ChatScript(name), LAMBDA m : m.topic = topic)

IsPrefix(s, t) == Len(s) <= Len(t) /\ s = SubSeq(t, 1, Len(s))

\* C20: the messages one client publishes on one topic are received by each
\* subscriber of that topic in the order they were published: what a
\* subscriber has received on the topic is a prefix of what was published on
\* it; and a client receives nothing on a topic it did not subscribe to.
C20_PerTopicOrder ==
    \A name \in ClientNames :
        /\ \A i \in DOMAIN inbox[name] : inbox[name][i].topic \in Subscriptions(name)
        /\ IsPrefix(ReceivedOn(name, alice_topic), PublishedOn("bob", alice_topic))
        /\ IsPrefix(ReceivedOn(name, bob_topic), PublishedOn("alice", bob_topic))

\* Alice and Bob received their three messages, and the spy all six with
\* the two topics interleaved.
C20_Witness ==
    /\ scenario = "communicate"
    /\ Len(inbox["alice"]) = 3
    /\ Len(inbox["bob"]) = 3
    /\ Len(inbox["spy"]) = 6
    /\ inbox["spy"][1].payload = "A"
    /\ inbox["spy"][2].payload = "1"
    /\ inbox["spy"][3].payload = "B"

(***************************************************************************)
(* Properties of the engine's persistence and recovery, and of the         *)
(* restart manager                                                         *)
(***************************************************************************)

Persisted(c) == { journal[c][i] : i \in DOMAIN journal[c] }

Statuses(c) == [i \in DOMAIN observed[c] |-> observed[c][i].status]

HasLine(file, key, value) == \E i \in DOMAIN file.lines : file.lines[i] = Line(key, value)

\* C17: when it starts, the restart manager reports the outcome of the
\* restart operation it finds persisted: Successful for the command id
\* persisted with Restarting, Failed with its reason for the id persisted
\* with Pending, and nothing when the persisted state is empty; what it
\* emits first after starting with an empty state is its answer to a
\* command.
C17_StartupReport ==
    /\ startup.count = 1 =>
          /\ \A c \in RecoveryCommands :
                /\ (HasLine(startup.file, "operation_id", c)
                     /\ HasLine(startup.file, "operation", "Restarting"))
                   => startup.reported = <<RestartCommand(c, "successful", "")>>
                /\ (HasLine(startup.file, "operation_id", c)
                     /\ HasLine(startup.file, "operation", "Pending"))
                   => startup.reported =
                          <<RestartCommand(c, "failed",
                               "The agent has been restarted but not the device")>>
          /\ startup.file.lines = <<>> => startup.reported = <<>>
    /\ reports # <<>> => reports[1].status = "executing"

\* The manager started with the state of a restart under way and reported
\* the success of the command it had answered with executing.
C17_Witness ==
    /\ startup.count = 1
    /\ HasLine(startup.file, "operation", "Restarting")
    /\ Len(reports) = 2
    /\ reports[2] = RestartCommand(reports[1].cmd_id, "successful", "")

\* The outcomes of the await-agent-restart step of the update command: what
\* the engine published for its state restarting.
Outcomes ==
    { i \in DOMAIN observed[TopCommand] : observed[TopCommand][i].state = "restarting" }

Outcome(status) ==
    \E i \in Outcomes : observed[TopCommand][i].status = status

\* The step awaits the restart of the agent: its state is on the topic and
\* persisted, and it has no outcome yet.
AwaitsRestart ==
    /\ operation[TopCommand] = "update"
    /\ retained[TopCommand] = "restarting"
    /\ "restarting" \in Persisted(TopCommand)

HappyPath == <<"init", "scheduled", "executing", "successful", "">>

FailedPath == <<"init", "scheduled", "executing", "failed", "">>

RestartCommands == { c \in RecoveryCommands : operation[c] = "restart" }

Field(payload, key) ==
    IF payload.kind # "object" THEN {}
    ELSE { payload.members[i].value : i \in
             { i \in DOMAIN payload.members :
                 /\ payload.members[i].key = key
                 /\ ~\E j \in DOMAIN payload.members :
                       j > i /\ payload.members[j].key = key } }

IsCommandTopic(topic) ==
    /\ Len(topic) = 8
    /\ topic[2] = <<"device">> /\ topic[3] = <<"main">> /\ topic[4] = <<>>
    /\ topic[5] = <<>> /\ topic[6] = <<"cmd">>
    /\ topic[7] \in {<<"restart">>, <<"software_list">>, <<"software_update">>}

\* The legacy request topic of an operation.
LegacyRequestTopic(op) ==
    CASE op = <<"restart">> -> <<<<"tedge">>, <<"commands">>, <<"req">>, <<"control">>, <<"restart">>>>
      [] op = <<"software_list">> -> <<<<"tedge">>, <<"commands">>, <<"req">>, <<"software">>, <<"list">>>>
      [] op = <<"software_update">> -> <<<<"tedge">>, <<"commands">>, <<"req">>, <<"software">>, <<"update">>>>

\* The operation of a legacy response topic.
ResponseOperation(topic) ==
    CASE topic[4] = <<"control">> -> <<"restart">>
      [] topic[5] = <<"list">> -> <<"software_list">>
      [] topic[5] = <<"update">> -> <<"software_update">>

\* C26: for a message on a main-device command topic of restart,
\* software_list or software_update the adapter emits a message if and only
\* if the payload is a JSON object with the string init as status; the
\* message is on tedge/commands/req/<type>, not retained, and its payload is
\* the object with the command id of the topic as id and without status.
C26_InitBecomesLegacyRequest ==
    (converter.handled = 1 /\ IsCommandTopic(converter.input.topic)) =>
        LET input == converter.input
            init == Field(input.payload, "status") = {String(<<"init">>)}
        IN  /\ converter.output # <<>> <=> init
            /\ init =>
                 /\ Len(converter.output) = 1
                 /\ converter.output[1].topic = LegacyRequestTopic(input.topic[7])
                 /\ ~converter.output[1].retain
                 /\ converter.output[1].payload.kind = "object"
                 /\ Field(converter.output[1].payload, "id") = {String(input.topic[8])}
                 /\ Field(converter.output[1].payload, "status") = {}
                 /\ Field(converter.output[1].payload, "reason")
                        = Field(input.payload, "reason")

\* An init request whose payload names another id than its topic was
\* converted.
C26_Witness ==
    /\ converter.handled = 1
    /\ IsCommandTopic(converter.input.topic)
    /\ converter.input.topic[8] = prefix \o <<"-", "1">>
    /\ converter.input.payload.members
           = <<Member("status", String(<<"init">>)), Member("id", String(<<"1">>))>>
    /\ Len(converter.output) = 1

\* The command id the adapter derives from the id of a legacy response.
PrefixedId(id) ==
    IF Len(id) >= 3 /\ id[1] = "c8y" /\ id[2] = "-" /\ id[3] = "mapper" THEN id
    ELSE <<"c8y", "-", "mapper", "-">> \o id

HasWildcard(id) == \E i \in DOMAIN id : id[i] \in {"#", "+"}

\* The one message a legacy response is converted into.
RetainedCommand(input, id) ==
    /\ Len(converter.output) = 1
    /\ converter.output[1].retain
    /\ converter.output[1].qos = "AtLeastOnce"
    /\ converter.output[1].payload = input.payload
    /\ converter.output[1].topic =
           <<<<"te">>, <<"device">>, <<"main">>, <<>>, <<>>, <<"cmd">>,
             ResponseOperation(input.topic), PrefixedId(id)>>

\* C27 as stated: every legacy response whose payload is a JSON object with
\* a string id is converted into exactly one retained message, and a
\* payload without such an id into none.
C27_ResponseAlwaysConverted ==
    (converter.handled = 1 /\ converter.input.topic \in LegacyResponseTopics) =>
        LET input == converter.input
            ids == { v \in Field(input.payload, "id") : v.type = "String" }
        IN  IF ids # {}
            THEN \A v \in ids : RetainedCommand(input, v.value)
            ELSE converter.output = <<>>

\* C27: a legacy response whose payload is a JSON object with a string id
\* is converted into exactly one retained QoS-1 message with the unchanged
\* payload on te/device/main///cmd/<op>/<cmd_id>, the id being prefixed
\* unless it starts with the prefix, provided the id holds no MQTT wildcard;
\* an id with a wildcard, like a payload without a string id, yields no
\* message.
C27_ResponseConverted ==
    (converter.handled = 1 /\ converter.input.topic \in LegacyResponseTopics) =>
        LET input == converter.input
            ids == { v \in Field(input.payload, "id") :
                        v.type = "String" /\ ~HasWildcard(v.value) }
        IN  IF ids # {}
            THEN \A v \in ids : RetainedCommand(input, v.value)
            ELSE converter.output = <<>>

\* A response with a bare id, its payload written status first, was
\* converted and its id prefixed.
C27_Witness ==
    /\ converter.handled = 1
    /\ converter.input.topic \in LegacyResponseTopics
    /\ converter.input.payload.members
           = <<Member("status", String(<<"successful">>)), Member("id", String(<<"1">>))>>
    /\ Len(converter.output) = 1
    /\ converter.output[1].topic[8] = <<"c8y", "-", "mapper", "-", "1">>

(***************************************************************************)
(* Properties of the fan-in of the config manager                          *)
(***************************************************************************)

\* The messages of a source in a sequence, in the order of the sequence.
FromSource(seq, source) == SelectSeq(seq, LAMBDA m : m.source = source)

\* The messages of a source that wait in its channel.
Waiting(source) ==
    FromSource(IF InputType(source) = "HttpResult" THEN http_responses.queue
               ELSE events.queue, source)

\* C21: the merged stream holds every message at most once and the
\* messages of each source in the order they were sent: what was received
\* of a source, followed by what waits in its channel, is what the source
\* sent; the stream ends only when every message sent has been received.
C21_MergedExactlyOnceInSourceOrder ==
    /\ \A source \in Sources :
          FromSource(merged.messages, source) \o Waiting(source)
              = Sent(source)
    /\ \A i, j \in DOMAIN merged.messages :
          merged.messages[i] = merged.messages[j] => i = j
    /\ merged.closed =>
          \A source \in Sources :
              /\ source \in fan_dropped
              /\ FromSource(merged.messages, source) = Sent(source)

\* Every message was received and the stream ended, the first message
\* received being an HTTP response that was sent after two events, and the
\* last one an HTTP response too: the order across sources is not that of
\* the sends.
C21_Witness ==
    /\ merged.closed
    /\ Len(merged.messages) = MaxInputs * Cardinality(Sources)
    /\ merged.messages[1].type = "HttpResult"
    /\ fan_sent[1] = 2
    /\ merged.messages[Len(merged.messages)].type = "HttpResult"


(***************************************************************************)
(* Properties of the MQTT actor when ends of its channels are dropped      *)
(***************************************************************************)

\* C23: an error raised while handling one message never terminates the
\* actor: the error is logged and the actor goes on with the next message.
\* MqttActor::run never ends with the error of a send.
C23_HandlerErrorNeverTerminates == actor.pc # "failed"

\* Both inputs of the MQTT actor are closed: every client dropped its sender
\* and the connection to the broker is closed.
InputsClosed == closed.senders = ClientNames /\ closed.broker

\* C24: the closure of its inputs is the normal stop signal of the actor:
\* it returns success, and only once both the channel of the peers and the
\* stream of the broker are closed and every queued message was handled;
\* once both are closed the actor does not end with an error.
C24_ClosedInputsStopWithSuccess ==
    /\ [](actor.pc = "returned" => InputsClosed /\ publish_channel.queue = <<>> /\ received = <<>>)
    /\ [][InputsClosed => actor'.pc # "failed" \/ actor.pc = "failed"]_vars

\* The client holds the receiver of its input channel.
Connected(name) == name \notin closed.receivers

\* The message is in the input channel of the client, or the client took it.
Delivered(name, message) ==
    \/ \E i \in DOMAIN inbox[name] : inbox[name][i] = message
    \/ \E i \in DOMAIN peer_channel[name].queue : peer_channel[name].queue[i] = message

\* C25: a message the actor got from the broker is delivered to every
\* connected client whose filter accepts its topic, once the actor is done
\* with the message, and no client is given a message of a topic its filter
\* does not accept.
C25_DeliveredToAcceptingClients ==
    /\ \A name \in ClientNames :
          \A message \in routed : Delivered(name, message) => Accept(name, message)
    /\ actor.pc \notin {"DirectMessage", "sending"} =>
          \A name \in ClientNames :
              \A message \in routed :
                  Connected(name) /\ Accept(name, message) => Delivered(name, message)

(***************************************************************************)
(* Properties of the runtime                                               *)
(***************************************************************************)

ShutdownTriggered == runtime.phase # "running"

Observed(name) == \E i \in DOMAIN runtime.errors : runtime.errors[i] = name

\* C22: after a shutdown is triggered, by an external signal, by the fatal
\* failure of an actor or by the completion of all the actors, every spawned
\* actor eventually terminates, by returning or by being aborted, and
\* run_to_completion returns the first fatal error observed, or success when
\* there was none.
C22_ShutdownTerminatesAll ==
    /\ ShutdownTriggered ~> (runtime.phase = "done" /\ AllTerminated(tasks))
    /\ [](runtime.phase = "done" =>
            /\ AllTerminated(tasks)
            /\ runtime.result = IF runtime.errors = <<>>
                                THEN Success ELSE FatalError(runtime.errors[1]))
    /\ [](\A name \in SpawnedActors : Observed(name) <=> tasks[name] = "failed")
    /\ [](ShutdownTriggered => runtime.cause \in {"signal", "failure", "completion"})
    /\ [][/\ \A i \in DOMAIN runtime.errors : runtime.errors'[i] = runtime.errors[i]
          /\ runtime.phase = "done" => UNCHANGED <<tasks, runtime>>]_vars

\* The runtime was shut down by a signal, one actor returned, two failed, the
\* last was aborted, and the runtime returned the error of the first failure.
C22_Witness ==
    /\ runtime.phase = "done"
    /\ runtime.cause = "signal"
    /\ runtime.errors = <<"FirmwareManager", "MQTT">>
    /\ runtime.result = FatalError("FirmwareManager")
    /\ tasks["ConfigManager"] = "aborted"
    /\ tasks["Signal"] = "returned"

(***************************************************************************)
(* Properties of SmartREST                                                 *)
(***************************************************************************)

Count(field, character) == Cardinality({i \in DOMAIN field : field[i] = character})

\* C32: the quoting round-trips: parsing the serialized line of any list of
\* fields gives back the fields, and a field that holds a comma or a quote
\* is wrapped in double quotes, its embedded quotes doubled.
C32_QuotingRoundTrips ==
    smartrest.op = "serialize" /\ smartrest.handled = 1 =>
        /\ smartrest.output.result.tag = "Ok"
        /\ smartrest.output.parsed = smartrest.input
        /\ \A i \in DOMAIN smartrest.input :
              LET field == smartrest.input[i]
                  out == smartrest.output.each[i]
              IN  IF Count(field, Comma) + Count(field, Quote) = 0
                  THEN out = field
                  ELSE /\ out[1] = Quote
                       /\ out[Len(out)] = Quote
                       /\ Len(out) = Len(field) + 2 + Count(field, Quote)
                       /\ Count(out, Quote) = 2 + 2 * Count(field, Quote)
                       /\ Count(out, Comma) = Count(field, Comma)

\* A field made of a quote and a comma, then an empty field, came back from
\* the line of eight characters.
C32_Witness ==
    /\ smartrest.op = "serialize"
    /\ smartrest.handled = 1
    /\ smartrest.input = << <<Quote, Comma>>, <<>> >>
    /\ smartrest.output.result = SmartrestOk(<<Quote, Quote, Quote, Comma, Quote, Comma>>)
    /\ smartrest.output.parsed = smartrest.input

Called(op) == smartrest.op = op /\ smartrest.handled = 1

\* The fields the claims give to an alarm.
AlarmFields(c8y_alarm) ==
    IF c8y_alarm.kind = "Create"
    THEN << (CASE c8y_alarm.severity = "Critical" -> <<Text("301", 3)>>
               [] c8y_alarm.severity = "Major" -> <<Text("302", 3)>>
               [] c8y_alarm.severity = "Minor" -> <<Text("303", 3)>>
               [] c8y_alarm.severity = "Warning" -> <<Text("304", 3)>>),
            c8y_alarm.alarm_type, c8y_alarm.text, c8y_alarm.time.text >>
    ELSE << <<Text("306", 3)>>, c8y_alarm.alarm_type >>

\* The line of the fields, whatever its size.
RECURSIVE LineOf(_)
LineOf(fields) ==
    LET field == IF NeedsQuotes(Head(fields))
                 THEN <<Quote>> \o Escape(Head(fields)) \o <<Quote>> ELSE Head(fields)
    IN  IF Len(fields) = 1 THEN field ELSE field \o <<Comma>> \o LineOf(Tail(fields))

Formattable(c8y_alarm) == c8y_alarm.kind = "Clear" \/ c8y_alarm.time.rfc3339

\* The child device is one that child_device_creation_message accepts.
ValidChild(child) ==
    /\ child.child_id # <<>>
    /\ child.device_name # Given(<<>>)
    /\ child.device_type # Given(<<>>)

\* The fields of the creation of a child device, the marker included.
ChildFields(child) ==
    << <<Text("101", 3)>>, child.child_id,
       IF child.device_name.variant = "Some" THEN child.device_name.value ELSE child.child_id,
       IF child.device_type.variant = "Some" THEN child.device_type.value
       ELSE <<Text("thin-edge.io-child", 18)>>,
       IF child.with_device_marker THEN <<Text("true", 4)>> ELSE <<Text("false", 5)>> >>

\* The outcome the claim gives to the serialization of a line: success up to
\* 16 KiB, a typed error value over it.
WithinCeiling(line, output) ==
    IF Size(line) <= 16 * 1024
    THEN output.tag = "Ok" /\ output.line = line
    ELSE output.tag = "Err"

\* C33: the serialization of a payload of exactly 16 KiB succeeds, and every
\* larger payload is rejected with a typed error value, by the serializer
\* and by the functions that serialize alarms and inventory messages.
C33_CeilingTypedError ==
    /\ Called("serialize") =>
          WithinCeiling(LineOf(smartrest.input), smartrest.output.result)
    /\ Called("serialize_alarm") /\ Formattable(smartrest.input) =>
          WithinCeiling(LineOf(AlarmFields(smartrest.input)), smartrest.output)
    /\ Called("child_device_creation_message") /\ ValidChild(smartrest.input) =>
          WithinCeiling(LineOf(ChildFields(smartrest.input)), smartrest.output)

\* The child device pump1 of the main device, with no type.
IsPump1(child) ==
    /\ child.child_id = Pump1Id
    /\ child.device_name \in {NotGiven, Given(<<Text("pump1", 5)>>)}
    /\ child.device_type = NotGiven
    /\ child.parent \in {NotGiven, Given(<<main_device_id>>)}

Rejected(child) ==
    /\ smartrest.output.tag = "Err"
    /\ smartrest.output.error = "InvalidValueError"
    /\ "line" \notin DOMAIN smartrest.output

\* C34 as stated: the message of the creation of pump1 has exactly the four
\* fields 101, <main-id>:device:pump1, pump1, thin-edge.io-child, on c8y/s/us,
\* and an empty child id, name or type is rejected with InvalidValueError.
C34_ChildDeviceCreationFourFields ==
    Called("child_device_creation_message") =>
        /\ ~ValidChild(smartrest.input) => Rejected(smartrest.input)
        /\ IsPump1(smartrest.input) =>
              /\ smartrest.output.tag = "Ok"
              /\ smartrest.output.topic = <<"c8y", "/s/us">>
              /\ parse(smartrest.output.line) =
                     << <<Text("101", 3)>>, Pump1Id, <<Text("pump1", 5)>>,
                        <<Text("thin-edge.io-child", 18)>> >>

\* C34: the message of the creation of pump1 has the five fields 101,
\* <main-id>:device:pump1, the name, which is the child id when no name is
\* given, thin-edge.io-child and the device marker, on c8y/s/us; an empty
\* child id, name or type is rejected with InvalidValueError, with no message.
C34_ChildDeviceCreation ==
    Called("child_device_creation_message") =>
        /\ ~ValidChild(smartrest.input) => Rejected(smartrest.input)
        /\ IsPump1(smartrest.input) =>
              /\ smartrest.output.tag = "Ok"
              /\ smartrest.output.topic = <<"c8y", "/s/us">>
              /\ Len(parse(smartrest.output.line)) = 5
              /\ parse(smartrest.output.line) =
                     << <<Text("101", 3)>>, Pump1Id,
                        IF smartrest.input.device_name = NotGiven
                        THEN Pump1Id ELSE <<Text("pump1", 5)>>,
                        <<Text("thin-edge.io-child", 18)>>,
                        IF smartrest.input.with_device_marker
                        THEN <<Text("true", 4)>> ELSE <<Text("false", 5)>> >>

\* The creation of pump1, named pump1, not marked as a device, gave the line
\* 101,device-under-test:device:pump1,pump1,thin-edge.io-child,false.
C34_Witness ==
    /\ Called("child_device_creation_message")
    /\ IsPump1(smartrest.input)
    /\ smartrest.input.device_name = Given(<<Text("pump1", 5)>>)
    /\ smartrest.output.tag = "Ok"
    /\ smartrest.output.line =
           <<Text("101", 3), Comma>> \o Pump1Id
           \o <<Comma, Text("pump1", 5), Comma, Text("thin-edge.io-child", 18), Comma,
                Text("false", 5)>>

\* C35: serialize_alarm maps a create alarm to the template 301, 302, 303 or
\* 304 of its severity, followed by the alarm type, the text and the RFC 3339
\* time, and a clear alarm to the template 306 followed by the alarm type
\* only, whatever the source of the alarm.
C35_AlarmTemplates ==
    Called("serialize_alarm") =>
        /\ smartrest.output.tag = "Ok" =>
              /\ parse(smartrest.output.line) = AlarmFields(smartrest.input)
              /\ smartrest.output.line = LineOf(AlarmFields(smartrest.input))
        /\ /\ Formattable(smartrest.input)
           /\ Size(LineOf(AlarmFields(smartrest.input))) <= MaxPayloadSize
           => smartrest.output.tag = "Ok"

\* The warning of an external sensor, with quotes in its text, gave the line
\* 304,temperature_alarm,"External ""sensor"" raised alarm",<time>.
C35_Witness ==
    /\ Called("serialize_alarm")
    /\ smartrest.input.kind = "Create"
    /\ smartrest.input.source.variant = "Some"
    /\ smartrest.output.tag = "Ok"
    /\ smartrest.output.line =
           <<Text("304", 3), Comma, Text("temperature_alarm", 17), Comma,
             Quote, Text("External ", 9), Quote, Quote, Text("sensor", 6), Quote, Quote,
             Text(" raised alarm", 13), Quote, Comma, Text("2021-04-23T19:00:00+05:00", 25)>>

(***************************************************************************)
(* Properties of the state repository                                      *)
(***************************************************************************)

\* A load returned, after the last call of the repository.
Loaded == storage.loaded # NotLoaded

EmptyState == State(Absent, Absent)

\* Loading an empty file gives the empty state, loading a missing file is
\* an error, and load after clear returns the empty state.
LoadOfEmptyAndMissing ==
    /\ (Loaded /\ storage.file = File(<<>>)) => storage.loaded = LoadOk(EmptyState)
    /\ (Loaded /\ ~storage.file.exists) => storage.loaded.kind = "LoadingFromFileFailed"
    /\ (Loaded /\ storage.last.op = "clear") =>
           storage.last.ok /\ storage.loaded = LoadOk(EmptyState)

\* C36 as stated: load after store(s) returns s, for every state s, load
\* after clear returns the state with neither operation id nor operation,
\* loading an empty file gives that same state, and loading a missing file
\* is an error.
C36_LoadAfterStore ==
    /\ (Loaded /\ storage.last.op = "store") => storage.loaded = LoadOk(storage.last.state)
    /\ LoadOfEmptyAndMissing

\* C36, amended: load after a store(s) that succeeded returns s; store
\* fails, and leaves the file as it was, exactly when the operation of s is
\* UnknownOperation; load after clear returns the state with neither
\* operation id nor operation, loading an empty file gives that same
\* state, and loading a missing file is an error.
C36_LoadAfterSuccessfulStore ==
    /\ (Loaded /\ storage.last.op = "store" /\ storage.last.ok) =>
           storage.loaded = LoadOk(storage.last.state)
    /\ (storage.last.op = "store") =>
           (storage.last.ok <=> storage.last.state.operation # UnknownOperation)
    /\ (Loaded /\ storage.last.op = "store" /\ ~storage.last.ok) =>
           /\ storage.file = storage.before
           /\ storage.loaded = load(storage.before)
    /\ LoadOfEmptyAndMissing

\* A state with both fields was stored and loaded, over a file holding
\* another state.
C36_Witness ==
    /\ Loaded
    /\ storage.last = Returned("store", State(Some("1234"), Software("list")), TRUE)
    /\ storage.before = File(<<Line("operation", "Restarting")>>)
    /\ storage.loaded = LoadOk(State(Some("1234"), Software("list")))

\* C37: a store that is interrupted at any point leaves the state file
\* holding either the complete previous content or the complete new
\* content, so a later load observes the previous state or the new one,
\* never a torn one.
C37_StoreIsAtomic ==
    /\ storage.file \in {storage.before, File(storage.content)}
    /\ (Loaded /\ storage.last.op = "interrupted") =>
           storage.loaded \in {load(storage.before), LoadOk(storage.last.state)}

\* A store of two lines over a file of two other lines was interrupted
\* when one line was written, and the file was loaded.
C37_Witness ==
    /\ Loaded
    /\ storage.last.op = "interrupted"
    /\ Len(storage.content) = 2
    /\ Len(storage.temp.lines) = 1
    /\ Len(storage.before.lines) = 2
    /\ storage.before.lines # storage.content
    /\ storage.loaded = load(storage.before)

(***************************************************************************)
(* Properties of the operations and their triggers                         *)
(***************************************************************************)

InList(op) ==
    \E i \in DOMAIN c8y_operations.operations : c8y_operations.operations[i] = op

\* C38: after any sequence of add_operation and remove_operation calls,
\* matching_smartrest_template(t) returns an operation only if that
\* operation is still in the list and declares on_message = t.
C38_TriggerIndexSound ==
    (c8y_operations.asked # NoMatch /\ c8y_operations.asked.result # NotGiven) =>
        /\ InList(c8y_operations.asked.result.value)
        /\ c8y_operations.asked.result.value.on_message
               = Given(<<c8y_operations.asked.template>>)

(***************************************************************************)
(* Properties of the firmware manager                                      *)
(***************************************************************************)

\* C39: whenever the firmware manager fails a child-device firmware
\* operation, on a response timeout or on a malformed child response, the
\* cloud sees for that operation exactly one executing status followed by
\* one failed status on the child's topic.
C39_OneExecutingThenOneFailed ==
    \A c \in ChildDeviceIds :
        (firmware[c].requested /\ firmware[c].last = "failed by the manager") =>
            firmware[c].cloud = <<"executing", "failed">>

(***************************************************************************)
(* Properties of the old-agent adapter fed with what it emits              *)
(***************************************************************************)

IsLegacyRequestTopic(topic) ==
    Len(topic) = 5 /\ SubSeq(topic, 1, 3) = Name(<<"tedge", "commands", "req">>)

Emitted == converter.handled = 1 /\ converter.output # <<>>

\* C40: a request the adapter emits on tedge/commands/req/... is on no
\* topic it subscribes to; a te command message it emitted from a legacy
\* response is converted back into a legacy request only if the response
\* carries status init, and into nothing else; so every chain of
\* conversions started by one input has length at most two.
C40_NoUnboundedFeedback ==
    /\ (Emitted /\ IsLegacyRequestTopic(converter.output[1].topic)) =>
           ~accept_topic(old_and_new_command_topics, converter.output[1].topic)
    /\ (Emitted /\ converter.hops = 1) =>
           /\ IsObject(converter.input.payload)
           /\ "status" \in DOMAIN from_slice(converter.input.payload)
           /\ from_slice(converter.input.payload)["status"] = String(<<"init">>)
           /\ IsLegacyRequestTopic(converter.output[1].topic)
    /\ converter.hops + converter.handled <= 2

\* A legacy response with status init came back as a te command message
\* and was converted into a legacy request: a chain of two.
C40_Witness ==
    /\ Emitted
    /\ converter.hops = 1
    /\ converter.input.retain
    /\ IsLegacyRequestTopic(converter.output[1].topic)

====
